---- MODULE Spec2Model ----
(***************************************************************************)
(* A model of fizban's incremental indexing pipeline: the chunker          *)
(* (indexer.chunk_text), the document store (db.Database), the vector      *)
(* index and the rebuild_index / update_index runs that tie them together. *)
(*                                                                         *)
(* The specifications share the variables:                                 *)
(*   SpecChunk  one call of chunk_text, one loop iteration per step;       *)
(*   SpecDb     arbitrary calls of the Database API on one connection;     *)
(*   Spec       rebuild_index / update_index runs over a small file tree,  *)
(*              one store or vector-index call per step;                   *)
(*   SpecSearch semantic_search next to an indexer removing documents;     *)
(*   SpecVector get_vector_backend and the calls of the two backends;      *)
(*   SpecIndexed, SpecSearchRun, SpecTwo: runs over repositories indexed   *)
(*              before, alone, beside a search, and two at a time.          *)
(***************************************************************************)
EXTENDS Integers, Sequences, FiniteSets, TLC

VARIABLES
    ct,         \* the running chunk_text call: arguments, cursor, chunks so far
    db,         \* the document store as the open connection sees it
    committed,  \* the document store as committed to the database file
    vec,        \* the vector index table: set of [chunk_id, embedding]
    files,      \* the file tree: path -> file state
    run,        \* the rebuild_index / update_index call in progress
    hist,       \* history: counters, the store as it was when the run began, the
                \* document a failed run had left without vectors
    api,        \* SpecDb: the last Database call, its arguments, result, pre-state
    sq,         \* the semantic_search call in progress
    vec_table,  \* the vector index table exists in the database file
    vb,         \* SpecVector: the backend object, its tables, its last call
    other       \* SpecTwo: the update_index call of a second process

vars == <<ct, db, committed, vec, files, run, hist, api, sq, vec_table, vb, other>>

----------------------------------------------------------------------------
(* Helpers *)

Max(S) == CHOOSE x \in S : \A y \in S : y <= x

Min2(a, b) == IF a <= b THEN a ELSE b

Range(s) == {s[i] : i \in 1..Len(s)}

\* Python's text[a:b] for 0 <= a, b (offsets are 0-based, b exclusive, clamped)
Slice(text, a, b) ==
    LET e == Min2(b, Len(text))
    IN  IF a >= e THEN <<>> ELSE [i \in 1..(e - a) |-> text[a + i]]

RECURSIVE Concat(_)
Concat(ss) == IF ss = <<>> THEN <<>> ELSE Head(ss) \o Concat(Tail(ss))

----------------------------------------------------------------------------
(* The chunker: indexer.chunk_text *)

\* Bounds of the chunker's inputs
MaxTokens == 4
MaxChunkSize == 9
MaxOverlap == 6

\* Texts are built from these pieces: a plain character, a word and the break
\* sequences chunk_text looks for.
Tokens == { <<"a">>, <<"a", "a", "a", "a">>, <<"a", "a", "a", "a", "a">>,
            <<".", " ">>, <<".", "\n">>, <<"!", " ">>, <<"?", " ">>,
            <<"\n", "\n">> }

TokenSeqs == UNION {[1..n -> Tokens] : n \in 0..MaxTokens}

Texts == {Concat(ts) : ts \in TokenSeqs}

\* str.rfind(sub, start, end): highest offset i in [start, end - len(sub)]
\* at which sub occurs, -1 when there is none
RFind(text, sub, start, end) ==
    LET e == Min2(end, Len(text))
        cand == {i \in start..(e - Len(sub)) :
                    \A k \in 1..Len(sub) : text[i + k] = sub[k]}
    IN  IF cand = {} THEN -1 ELSE Max(cand)

\* the sentence separators, in the order the code tries them
SentenceSeps == << <<".", " ">>, <<".", "\n">>, <<"!", " ">>, <<"?", " ">> >>

\* the for-loop over the sentence separators: the first separator whose last
\* occurrence lies after the middle of the window decides the end
RECURSIVE SentenceBreak(_, _, _, _, _)
SentenceBreak(text, start, end, size, k) ==
    IF k > Len(SentenceSeps) THEN end
    ELSE LET sep == SentenceSeps[k]
             sep_pos == RFind(text, sep, start, end)
         IN  IF sep_pos > start + (size \div 2)
             THEN sep_pos + Len(sep)
             ELSE SentenceBreak(text, start, end, size, k + 1)

\* the end of the chunk that starts at start
ChunkEnd(text, start, size) ==
    LET end == Min2(start + size, Len(text))
    IN  IF end < Len(text)
        THEN LET newline_pos == RFind(text, <<"\n", "\n">>, start, end)
             IN  IF newline_pos > start + (size \div 2)
                 THEN newline_pos + 2
                 ELSE SentenceBreak(text, start, end, size, 1)
        ELSE end

Chunk(text, start, end) ==
    [content |-> Slice(text, start, end), start |-> start, end |-> end]

\* A mutant of the step of the cursor: no forced advance
NewStartNoAdvance(start, end, overlap) ==
    IF end - overlap < 0 THEN 0 ELSE end - overlap

\* lines 56-61: the next start, overlap characters before the end, or the end
\* itself when that would not advance
NewStart(start, end, overlap) ==
    LET new_start == end - overlap
    IN  IF new_start <= start THEN end ELSE new_start

\* Python's text[a:]
SliceFrom(text, a) == Slice(text, a, Len(text))

\* A mutant of the extension of the last chunk: the offsets are moved, the
\* content is left as it was
ExtendLastKeepContent(text, chunks) ==
    [chunks EXCEPT ![Len(chunks)] = [@ EXCEPT !.end = Len(text)]]

\* lines 66-69: the last chunk is extended to the end of the text
ExtendLast(text, chunks) ==
    IF chunks = <<>> THEN chunks
    ELSE LET last == chunks[Len(chunks)]
         IN  [chunks EXCEPT ![Len(chunks)] =
                 [content |-> SliceFrom(text, last.start),
                  start |-> last.start, end |-> Len(text)]]

\* A mutant of the loop body: a short tail is dropped instead of being
\* appended to the last chunk.
ChunkLoopBodyDropTail(text, size, overlap, s) ==
    LET end == ChunkEnd(text, s.start, size)
        chunks == Append(s.chunks, Chunk(text, s.start, end))
        new_start == NewStart(s.start, end, overlap)
    IN  IF new_start >= Len(text)
        THEN [start |-> new_start, chunks |-> chunks, going |-> FALSE]
        ELSE IF Len(text) - new_start < overlap
        THEN [start |-> new_start, chunks |-> chunks, going |-> FALSE]
        ELSE [start |-> new_start, chunks |-> chunks, going |-> TRUE]

\* One iteration of the while loop, from the loop state s = [start, chunks]
ChunkLoopBody(text, size, overlap, s) ==
    LET end == ChunkEnd(text, s.start, size)
        chunks == Append(s.chunks, Chunk(text, s.start, end))
        new_start == NewStart(s.start, end, overlap)
    IN  IF new_start >= Len(text)
        THEN [start |-> new_start, chunks |-> chunks, going |-> FALSE]
        ELSE IF Len(text) - new_start < overlap
        THEN [start |-> new_start, chunks |-> ExtendLast(text, chunks),
              going |-> FALSE]
        ELSE [start |-> new_start, chunks |-> chunks, going |-> TRUE]

RECURSIVE ChunkLoop(_, _, _, _)
ChunkLoop(text, size, overlap, s) ==
    IF ~s.going THEN s.chunks
    ELSE ChunkLoop(text, size, overlap, ChunkLoopBody(text, size, overlap, s))

\* A mutant of the second early return: a text of exactly chunk_size
\* characters goes through the loop
FitsOneChunkStrict(text, size) == Len(text) < size

\* line 32: the text fits one chunk
FitsOneChunk(text, size) == Len(text) <= size

\* chunk_text(text, chunk_size, chunk_overlap) as a function
chunk_text(text, size, overlap) ==
    IF text = <<>> THEN <<>>
    ELSE IF FitsOneChunk(text, size) THEN <<Chunk(text, 0, Len(text))>>
    ELSE ChunkLoop(text, size, overlap,
                   [start |-> 0, chunks |-> <<>>, going |-> TRUE])

\* chunk_text as a process: ct.pc is "entry", "loop" or "returned"
CtIdle == [text |-> <<>>, size |-> 1, overlap |-> 0, pc |-> "idle",
           start |-> 0, chunks |-> <<>>, iters |-> 0]

CtInit ==
    ct \in {[text |-> t, size |-> sz, overlap |-> ov, pc |-> "entry",
             start |-> 0, chunks |-> <<>>, iters |-> 0] :
                t \in Texts, sz \in 1..MaxChunkSize, ov \in 0..MaxOverlap}

\* lines 30-33: the two early returns
ChunkTextReturnEarly ==
    /\ ct.pc = "entry"
    /\ ct.text = <<>> \/ FitsOneChunk(ct.text, ct.size)
    /\ ct' = [ct EXCEPT !.pc = "returned",
                        !.chunks = IF ct.text = <<>> THEN <<>>
                                   ELSE <<Chunk(ct.text, 0, Len(ct.text))>>]
    /\ UNCHANGED <<db, committed, vec, files, run, hist, api, sq, vec_table, vb, other>>

\* lines 35-37: enter the loop with start = 0
ChunkTextEnterLoop ==
    /\ ct.pc = "entry"
    /\ ct.text # <<>> /\ ~FitsOneChunk(ct.text, ct.size)
    /\ ct' = [ct EXCEPT !.pc = "loop", !.start = 0, !.chunks = <<>>]
    /\ UNCHANGED <<db, committed, vec, files, run, hist, api, sq, vec_table, vb, other>>

\* lines 37-70: one iteration of the loop
ChunkTextIterate ==
    /\ ct.pc = "loop"
    /\ LET s == ChunkLoopBody(ct.text, ct.size, ct.overlap,
                              [start |-> ct.start, chunks |-> ct.chunks,
                               going |-> TRUE])
       IN  ct' = [ct EXCEPT !.pc = IF s.going THEN "loop" ELSE "returned",
                            !.start = s.start,
                            !.chunks = s.chunks,
                            !.iters = ct.iters + 1]
    /\ UNCHANGED <<db, committed, vec, files, run, hist, api, sq, vec_table, vb, other>>

----------------------------------------------------------------------------
(* The document store: db.Database over SQLite *)

\* Python's None, bound to a column or returned in place of a value
None == <<"None">>

\* Python's None, returned in place of a row
NoRow == [id |-> 0]

\* content_hash: SHA-256 of the content, taken as collision-free
content_hash(content) == <<"sha256", content>>

\* the schema of SCHEMA_SQL: three tables and their AUTOINCREMENT counters
EmptyDb ==
    [docs |-> {}, chunks |-> {}, images |-> {},
     seq |-> [documents |-> 0, chunks |-> 0, images |-> 0]]

\* PRAGMA foreign_keys=ON, set when the connection is opened
foreign_keys == TRUE

DocsByPath(d, path) == {r \in d.docs : r.path = path}

\* A mutant of upsert_document: a plain INSERT, without ON CONFLICT(path)
upsert_document_always_insert(d, repo, path, title, content, last_modified, now) ==
    LET id == d.seq.documents + 1
        row == [id |-> id, repo |-> repo, path |-> path, title |-> title,
                content |-> content, content_hash |-> content_hash(content),
                last_modified |-> last_modified, indexed_at |-> now]
    IN  [db |-> [d EXCEPT !.docs = @ \cup {row}, !.seq.documents = id],
         ret |-> id, raised |-> FALSE]

\* upsert_document: INSERT ... ON CONFLICT(path) DO UPDATE ... RETURNING id
upsert_document(d, repo, path, title, content, last_modified, now) ==
    LET old == DocsByPath(d, path)
    IN  IF old # {}
        THEN LET o == CHOOSE r \in old : TRUE
                 row == [id |-> o.id, repo |-> repo, path |-> path,
                         title |-> title, content |-> content,
                         content_hash |-> content_hash(content),
                         last_modified |-> last_modified, indexed_at |-> now]
             IN  [db |-> [d EXCEPT !.docs = (@ \ old) \cup {row}],
                  ret |-> o.id, raised |-> FALSE]
        ELSE LET id == d.seq.documents + 1
                 row == [id |-> id, repo |-> repo, path |-> path,
                         title |-> title, content |-> content,
                         content_hash |-> content_hash(content),
                         last_modified |-> last_modified, indexed_at |-> now]
             IN  [db |-> [d EXCEPT !.docs = @ \cup {row}, !.seq.documents = id],
                  ret |-> id, raised |-> FALSE]

\* get_document / get_document_by_path / get_chunk: the row, or NoRow
get_document(d, doc_id) ==
    LET rs == {r \in d.docs : r.id = doc_id}
    IN  IF rs = {} THEN NoRow ELSE CHOOSE r \in rs : TRUE

get_document_by_path(d, path) ==
    LET rs == DocsByPath(d, path)
    IN  IF rs = {} THEN NoRow ELSE CHOOSE r \in rs : TRUE

get_chunk(d, chunk_id) ==
    LET rs == {c \in d.chunks : c.id = chunk_id}
    IN  IF rs = {} THEN NoRow ELSE CHOOSE c \in rs : TRUE

\* get_content_hash: the stored hash of the path, or None
get_content_hash(d, path) ==
    LET rs == DocsByPath(d, path)
    IN  IF rs = {} THEN None ELSE (CHOOSE r \in rs : TRUE).content_hash

\* A mutant of get_all_paths: the repository filter is not applied
get_all_paths_any_repo(d, repo) == {r.path : r \in d.docs}

\* get_all_paths(repo): the paths stored under the repository label
get_all_paths(d, repo) == {r.path : r \in {x \in d.docs : x.repo = repo}}

\* rows ORDER BY chunk_index
RECURSIVE OrderByChunkIndex(_)
OrderByChunkIndex(rows) ==
    IF rows = {} THEN <<>>
    ELSE LET m == CHOOSE r \in rows :
                     \A o \in rows : r.chunk_index < o.chunk_index
                                     \/ (r.chunk_index = o.chunk_index /\ r.id <= o.id)
         IN  <<m>> \o OrderByChunkIndex(rows \ {m})

\* rows ORDER BY id
RECURSIVE OrderById(_)
OrderById(rows) ==
    IF rows = {} THEN <<>>
    ELSE LET m == CHOOSE r \in rows : \A o \in rows : r.id <= o.id
         IN  <<m>> \o OrderById(rows \ {m})

\* get_chunks: the document's chunks ORDER BY chunk_index
get_chunks(d, document_id) ==
    OrderByChunkIndex({c \in d.chunks : c.document_id = document_id})

\* get_images: the document's images ORDER BY id
get_images(d, document_id) ==
    OrderById({i \in d.images : i.document_id = document_id})

ChunkIdsOf(d, document_id) ==
    {c.id : c \in {x \in d.chunks : x.document_id = document_id}}

\* A mutant of delete_document: the chunk and image rows are left behind
delete_document_no_cascade(d, doc_id) ==
    [db |-> [d EXCEPT !.docs = {r \in @ : r.id # doc_id}],
     ret |-> None, raised |-> FALSE]

\* delete_document: DELETE FROM documents, with ON DELETE CASCADE on
\* chunks.document_id and images.document_id
delete_document(d, doc_id) ==
    [db |-> [d EXCEPT
               !.docs = {r \in @ : r.id # doc_id},
               !.chunks = IF foreign_keys
                          THEN {c \in @ : c.document_id # doc_id} ELSE @,
               !.images = IF foreign_keys
                          THEN {i \in @ : i.document_id # doc_id} ELSE @],
     ret |-> None, raised |-> FALSE]

\* A mutant of the INSERT loop: the table is declared without AUTOINCREMENT,
\* so a new row takes the largest id in the table plus one
RECURSIVE InsertChunkRowsRowid(_, _, _, _, _)
InsertChunkRowsRowid(d, document_id, chunks, k, ids) ==
    IF k > Len(chunks) THEN [db |-> d, ret |-> ids, raised |-> FALSE]
    ELSE LET t == chunks[k]
             id == Max({c.id : c \in d.chunks} \cup {0}) + 1
             row == [id |-> id, document_id |-> document_id,
                     chunk_index |-> t.chunk_index, content |-> t.content,
                     start_char |-> t.start_char, end_char |-> t.end_char]
         IN  IF t.content = None
                \/ (foreign_keys /\ \A r \in d.docs : r.id # document_id)
             THEN [db |-> d, ret |-> ids, raised |-> TRUE]
             ELSE InsertChunkRowsRowid(
                     [d EXCEPT !.chunks = @ \cup {row}, !.seq.chunks = id],
                     document_id, chunks, k + 1, Append(ids, id))

\* the INSERT loop of insert_chunks from element k on; an INSERT raises
\* IntegrityError on a NULL content (NOT NULL) or an unknown document
\* (REFERENCES documents(id)), and the method is left without commit
RECURSIVE InsertChunkRows(_, _, _, _, _)
InsertChunkRows(d, document_id, chunks, k, ids) ==
    IF k > Len(chunks) THEN [db |-> d, ret |-> ids, raised |-> FALSE]
    ELSE LET t == chunks[k]
             id == d.seq.chunks + 1
             row == [id |-> id, document_id |-> document_id,
                     chunk_index |-> t.chunk_index, content |-> t.content,
                     start_char |-> t.start_char, end_char |-> t.end_char]
         IN  IF t.content = None
                \/ (foreign_keys /\ \A r \in d.docs : r.id # document_id)
             THEN [db |-> d, ret |-> ids, raised |-> TRUE]
             ELSE InsertChunkRows(
                     [d EXCEPT !.chunks = @ \cup {row}, !.seq.chunks = id],
                     document_id, chunks, k + 1, Append(ids, id))

\* A mutant of insert_chunks: the old rows are not deleted first
insert_chunks_append(d, document_id, chunks) ==
    InsertChunkRows(d, document_id, chunks, 1, <<>>)

\* insert_chunks: DELETE the document's chunks, INSERT the new ones
insert_chunks(d, document_id, chunks) ==
    InsertChunkRows(
        [d EXCEPT !.chunks = {c \in @ : c.document_id # document_id}],
        document_id, chunks, 1, <<>>)

RECURSIVE InsertImageRows(_, _, _, _)
InsertImageRows(d, document_id, images, k) ==
    IF k > Len(images) THEN [db |-> d, ret |-> None, raised |-> FALSE]
    ELSE LET t == images[k]
             id == d.seq.images + 1
             row == [id |-> id, document_id |-> document_id,
                     original_path |-> t.original_path,
                     absolute_path |-> t.absolute_path,
                     alt_text |-> t.alt_text]
         IN  IF t.original_path = None \/ t.absolute_path = None
                \/ (foreign_keys /\ \A r \in d.docs : r.id # document_id)
             THEN [db |-> d, ret |-> None, raised |-> TRUE]
             ELSE InsertImageRows(
                     [d EXCEPT !.images = @ \cup {row}, !.seq.images = id],
                     document_id, images, k + 1)

\* insert_images: DELETE the document's images, INSERT the new ones
insert_images(d, document_id, images) ==
    InsertImageRows(
        [d EXCEPT !.images = {i \in @ : i.document_id # document_id}],
        document_id, images, 1)

----------------------------------------------------------------------------
(* The markdown parser: markdown_parser.py *)

\* A markdown file's content is its character text together with the image
\* links ![alt](path) written in it; a path is its sequence of segments.

\* the cut of the fallback title
TitleMax == 100

Untitled == <<"U", "n", "t", "i", "t", "l", "e", "d">>

IsWs(c) == c \in {" ", "\n", "\t"}

\* the character at a 0-based offset
Ch(text, i) == text[i + 1]

Min(S) == CHOOSE x \in S : \A y \in S : x <= y

\* str.strip()
Strip(s) ==
    LET keep == {i \in 0..(Len(s) - 1) : ~IsWs(Ch(s, i))}
    IN  IF keep = {} THEN <<>> ELSE Slice(s, Min(keep), Max(keep) + 1)

\* the offset at which the line holding offset g ends
LineEnd(text, g) == Min({j \in g..Len(text) : j = Len(text) \/ Ch(text, j) = "\n"})

\* the offset at which the line holding offset g starts
LineStart(text, g) == Max({j \in 0..g : j = 0 \/ Ch(text, j - 1) = "\n"})

\* where group 1 of ^#\s+(.+)$ can start for a '#' at offset i: after one
\* or more whitespace characters, on a character '.' matches
HeadingGroupStarts(text, i) ==
    {g \in (i + 2)..(Len(text) - 1) :
        /\ \A k \in (i + 1)..(g - 1) : IsWs(Ch(text, k))
        /\ Ch(text, g) # "\n"}

\* the offsets at which re.search(r'^#\s+(.+)$', content, re.MULTILINE) matches
HeadingStarts(text) ==
    {i \in 0..(Len(text) - 1) :
        /\ Ch(text, i) = "#"
        /\ (i = 0 \/ Ch(text, i - 1) = "\n")
        /\ HeadingGroupStarts(text, i) # {}}

\* extract_title
extract_title(text) ==
    IF HeadingStarts(text) # {}
    THEN LET i == Min(HeadingStarts(text))
             g == Max(HeadingGroupStarts(text, i))  \* \s+ is greedy
         IN  Strip(Slice(text, g, LineEnd(text, g)))
    ELSE LET solid == {i \in 0..(Len(text) - 1) : ~IsWs(Ch(text, i))}
         IN  IF solid = {} THEN Untitled
             ELSE LET f == Min(solid)
                      line == Slice(text, LineStart(text, f), LineEnd(text, f))
                  IN  Slice(Strip(line), 0, TitleMax)

\* img_path.startswith(('http://', 'https://', 'data:'))
IsUrl(img_path) ==
    Len(img_path) > 0 /\ img_path[1] \in {"http:", "https:", "data:"}

\* Path.resolve() of joined segments: an empty segment (a doubled slash) is
\* dropped, '..' steps out of the last directory
RECURSIVE Resolve(_, _)
Resolve(base, segs) ==
    IF segs = <<>> THEN base
    ELSE IF Head(segs) = "" THEN Resolve(base, Tail(segs))
    ELSE IF Head(segs) = ".."
    THEN Resolve(IF base = <<>> THEN <<>> ELSE SubSeq(base, 1, Len(base) - 1),
                 Tail(segs))
    ELSE Resolve(Append(base, Head(segs)), Tail(segs))

\* resolved.relative_to(resolved_root) does not raise
IsRelativeTo(path, root) ==
    Len(path) >= Len(root) /\ SubSeq(path, 1, Len(root)) = root

Parent(path) == SubSeq(path, 1, Len(path) - 1)

\* the loop of extract_images over the links, from link k on
RECURSIVE ExtractImagesFrom(_, _, _, _)
ExtractImagesFrom(links, file_path, repo_root, k) ==
    IF k > Len(links) THEN <<>>
    ELSE LET l == links[k]
             resolved == Resolve(Parent(file_path), l.path)
             rest == ExtractImagesFrom(links, file_path, repo_root, k + 1)
         IN  IF IsUrl(l.path) THEN rest
             ELSE IF ~IsRelativeTo(resolved, Resolve(<<>>, repo_root)) THEN rest
             ELSE <<[original_path |-> l.path, absolute_path |-> resolved,
                     alt_text |-> l.alt]>> \o rest

\* extract_images(content, file_path, repo_root) with a repo_root given
extract_images(content, file_path, repo_root) ==
    ExtractImagesFrom(content.links, file_path, repo_root, 1)

\* parse_markdown: the content is returned as read
parse_markdown(content, file_path, repo_root) ==
    [title |-> extract_title(content.text), content |-> content,
     images |-> extract_images(content, file_path, repo_root)]

----------------------------------------------------------------------------
(* The vector index: the table of vec_backend.SqliteVecBackend, one row per
   chunk_id *)

\* EmbeddingModel.encode of one text: a function of the text alone
encode(text) == <<"embedding", text>>

VecIds(v) == {r.chunk_id : r \in v}

\* add_vectors: INSERT OR REPLACE, in the order of ids
RECURSIVE add_vectors(_, _, _)
add_vectors(v, ids, vectors) ==
    IF ids = <<>> \/ vectors = <<>> THEN v
    ELSE add_vectors(
            {r \in v : r.chunk_id # Head(ids)}
                \cup {[chunk_id |-> Head(ids), embedding |-> Head(vectors)]},
            Tail(ids), Tail(vectors))

\* delete_vectors: DELETE ... WHERE chunk_id IN (ids)
delete_vectors(v, ids) == {r \in v : r.chunk_id \notin Range(ids)}

\* A mutant of clear: the table is kept
clear_keep(v) == v

\* clear: DROP TABLE and, the dimension being set by init_index, re-create
clear(v) == {}

----------------------------------------------------------------------------
(* The file tree and the configuration *)

\* Bounds of the runs
MaxRuns == 2
MaxEdits == 2
MaxFailures == 1

\* config.chunk_size and config.chunk_overlap, scaled to the model's texts
ChunkSize == 4
ChunkOverlap == 1

\* config.repos
Repos == <<"A", "B">>

RepoRoot(repo) == <<repo>>

\* every markdown path of the model, in lexicographic order
ScanPaths == << <<"A", "1.md">>, <<"A", "2.md">>, <<"B", "1.md">> >>

Paths == Range(ScanPaths)

PathRank(p) == CHOOSE i \in 1..Len(ScanPaths) : ScanPaths[i] = p

\* the contents a file can have
DocOne ==
    [text |-> <<"#", " ", "a", "\n", "a", "a">>,
     links |-> << [alt |-> "pic", path |-> <<"pic.png">>] >>]

DocTwo ==
    [text |-> <<"a", "a">>,
     links |-> << [alt |-> "evil", path |-> <<"..", "..", "out", "evil.png">>],
                  [alt |-> "fig", path |-> <<"img", "fig.png">>],
                  [alt |-> "web", path |-> <<"https:", "", "x", "y.png">>],
                  [alt |-> "WEB", path |-> <<"HTTPS:", "", "x", "z.png">>] >>]

DocEmpty == [text |-> <<>>, links |-> <<>>]

Contents == {DocOne, DocTwo, DocEmpty}

Absent == [kind |-> "absent", content |-> DocEmpty, mtime |-> 0]

FileStates(t) ==
    {Absent, [kind |-> "unreadable", content |-> DocEmpty, mtime |-> t]}
        \cup {[kind |-> "file", content |-> c, mtime |-> t] : c \in Contents}

\* A mutant of scan_repo: a file that cannot be read is not listed
scan_repo_readable(fs, repo_path) ==
    SelectSeq(ScanPaths,
              LAMBDA p : IsRelativeTo(p, RepoRoot(repo_path))
                         /\ fs[p].kind = "file")

\* scan_repo: the sorted markdown paths under the repository root
scan_repo(fs, repo_path) ==
    SelectSeq(ScanPaths,
              LAMBDA p : IsRelativeTo(p, RepoRoot(repo_path))
                         /\ fs[p].kind # "absent")

\* time.time(): later at every run and every edit
Now == hist.runs + hist.edits

\* list_documents(): the rows ORDER BY path
RECURSIVE OrderByPath(_)
OrderByPath(rows) ==
    IF rows = {} THEN <<>>
    ELSE LET m == CHOOSE r \in rows :
                     \A o \in rows : PathRank(r.path) <= PathRank(o.path)
         IN  <<m>> \o OrderByPath(rows \ {m})

list_documents(d) == OrderByPath(d.docs)

----------------------------------------------------------------------------
(* rebuild_index and update_index: indexer.py *)

\* the store, the index and the file tree as a run found them
NoStart == [db |-> EmptyDb, vec |-> {}, files |-> [p \in Paths |-> Absent]]

IdleRun ==
    [kind |-> "none", status |-> "idle", pc |-> "none",
     todo |-> <<>>, repo_i |-> 0, md_files |-> <<>>, file_i |-> 0,
     rm |-> {}, rm_doc |-> 0,
     raw |-> DocEmpty, doc_id |-> 0, chunk_ids |-> <<>>,
     ret |-> FALSE, why |-> "none",
     pre |-> [db |-> EmptyDb, vec |-> {}],
     total_files |-> 0, indexed |-> 0, removed |-> 0]

NoArgs == [path |-> <<>>, doc_id |-> 0, version |-> 0, rows |-> <<>>]

\* the last Database call: what was asked, what came back, and what the
\* document it names had before
NoCall == [op |-> "none", args |-> NoArgs, ret |-> None, raised |-> FALSE,
           had |-> [doc |-> NoRow, chunks |-> {}, images |-> {}]]

\* an optional argument left at its default None
NotGiven == [given |-> FALSE, value |-> 0]

\* no semantic_search call is in progress
NoSearch ==
    [pc |-> "idle", query |-> <<>>, limit |-> 0, distance_threshold |-> NotGiven,
     threshold |-> NotGiven, hits |-> <<>>, i |-> 0, chunk |-> NoRow,
     results |-> <<>>, skipped |-> <<>>, error |-> "none"]

\* a vector table that was never created, or was dropped
NoTable ==
    [exists |-> FALSE, dim |-> 0, seq |-> 0, rows |-> {},
     vss_chunks |-> {}, vss_chunk_map |-> {}]

\* no vector backend has been asked for: nothing is installed or configured,
\* the database file holds no vector table
NoBackend ==
    [installed |-> {}, vector_backend |-> <<>>, kind |-> "none", dimension |-> 0,
     tables |-> [k \in {"vec", "vss"} |-> NoTable], calls |-> 0,
     last |-> [op |-> "none", ids |-> <<>>, vectors |-> <<>>, raised |-> "none",
               tried |-> <<>>, count |-> 0, hits |-> <<>>,
               pre |-> [k \in {"vec", "vss"} |-> NoTable]]]

Running == run.status = "running"

\* locals of the call in progress
RepoPath == Repos[run.repo_i]
FilePath == run.md_files[run.file_i]
Parsed == parse_markdown(run.raw, FilePath, RepoRoot(RepoPath))

\* A mutant of the enumeration: the sequence index counts from 1
ChunkDataFromOne(text_chunks) ==
    [i \in 1..Len(text_chunks) |->
        [chunk_index |-> i, content |-> text_chunks[i].content,
         start_char |-> text_chunks[i].start, end_char |-> text_chunks[i].end]]

\* enumerate(text_chunks) as the tuples handed to insert_chunks
ChunkData(text_chunks) ==
    [i \in 1..Len(text_chunks) |->
        [chunk_index |-> i - 1, content |-> text_chunks[i].content,
         start_char |-> text_chunks[i].start, end_char |-> text_chunks[i].end]]

Ids(rows) == [i \in 1..Len(rows) |-> rows[i].id]

\* line 126: the chunks of the parsed content
TextChunks == chunk_text(Parsed.content.text, ChunkSize, ChunkOverlap)

\* line 136: the texts of the chunk tuples
Texts_of(text_chunks) == [i \in 1..Len(text_chunks) |-> text_chunks[i].content]

\* the locals of _index_file, dropped when it returns
ClearLocals(r) ==
    [r EXCEPT !.raw = DocEmpty, !.doc_id = 0, !.chunk_ids = <<>>,
              !.ret = FALSE, !.why = "none",
              !.pre = [db |-> EmptyDb, vec |-> {}]]

\* where the run goes once the files of the repository are done
AfterFiles(r) ==
    IF r.kind = "update"
    THEN [r EXCEPT !.pc = "removed_scan"]
    ELSE [r EXCEPT !.pc = "scan", !.repo_i = @ + 1]

Begin(kind, pc) ==
    /\ ~Running
    /\ hist.runs < MaxRuns
    /\ run' = [IdleRun EXCEPT !.kind = kind, !.status = "running", !.pc = pc,
                              !.repo_i = 1]
    /\ hist' = [hist EXCEPT !.runs = @ + 1,
                            !.start = [db |-> db, vec |-> vec, files |-> files],
                            !.prev = hist.last, !.last = "none"]
    /\ vec_table' = TRUE
    /\ UNCHANGED <<ct, sq, vb, other, db, committed, vec, files, api>>

\* rebuild_index, lines 158-163
StartRebuild == Begin("rebuild", "clear")

\* update_index, lines 190-201
StartUpdate == Begin("update", "scan")

\* rebuild_index, lines 164-167: vector.clear(), then list the documents
RebuildClear ==
    /\ Running /\ run.pc = "clear"
    /\ vec' = clear(vec)
    /\ LET todo == Ids(list_documents(db))
       IN  run' = [run EXCEPT !.todo = todo,
                              !.pc = IF todo = <<>> THEN "scan" ELSE "delete_docs"]
    /\ UNCHANGED <<ct, sq, vec_table, vb, other, db, committed, files, hist, api>>

\* rebuild_index, line 168: db.delete_document(doc.id)
RebuildDeleteDocument ==
    /\ Running /\ run.pc = "delete_docs"
    /\ LET r == delete_document(db, Head(run.todo))
       IN  /\ db' = r.db
           /\ committed' = r.db
    /\ run' = [run EXCEPT !.todo = Tail(@),
                          !.pc = IF Tail(run.todo) = <<>> THEN "scan"
                                 ELSE "delete_docs"]
    /\ UNCHANGED <<ct, sq, vec_table, vb, other, vec, files, hist, api>>

\* lines 173-175 and 203-207: scan the next repository
ScanRepo ==
    /\ Running /\ run.pc = "scan"
    /\ run.repo_i <= Len(Repos)
    /\ LET md_files == scan_repo(files, RepoPath)
           r == [run EXCEPT !.md_files = md_files, !.file_i = 1,
                            !.total_files = @ + Len(md_files)]
       IN  run' = IF md_files = <<>> THEN AfterFiles(r)
                  ELSE [r EXCEPT !.pc = "index_file"]
    /\ UNCHANGED <<ct, sq, vec_table, vb, other, db, committed, vec, files, hist, api>>

\* lines 180-181 and 226-227: db.close() and return the counts
Finish ==
    /\ Running /\ run.pc = "scan"
    /\ run.repo_i > Len(Repos)
    /\ run' = [run EXCEPT !.status = "done", !.pc = "none"]
    /\ db' = committed
    /\ hist' = [hist EXCEPT !.last = run.kind]
    /\ UNCHANGED <<ct, sq, vec_table, vb, other, committed, vec, files, api>>

\* A mutant of the change check: the stored hash is not consulted
Unchanged_never(d, path, raw_content) == FALSE

\* _index_file, lines 105-109: the file's hash equals the stored one
Unchanged(d, path, raw_content) ==
    get_content_hash(d, path) = content_hash(raw_content)

\* _index_file, lines 96-109: read the file and compare the hashes
IndexFileRead ==
    /\ Running /\ run.pc = "index_file"
    /\ LET f == files[FilePath]
           r == [run EXCEPT !.pre = [db |-> db, vec |-> vec]]
       IN  run' =
             IF f.kind # "file"
             THEN [r EXCEPT !.pc = "returned", !.ret = FALSE,
                            !.why = "unreadable"]
             ELSE IF Unchanged(db, FilePath, f.content)
             THEN [r EXCEPT !.pc = "returned", !.ret = FALSE,
                            !.why = "unchanged"]
             ELSE [r EXCEPT !.pc = "upsert", !.raw = f.content]
    /\ UNCHANGED <<ct, sq, vec_table, vb, other, db, committed, vec, files, hist, api>>

\* _index_file, lines 111-118: parse, then db.upsert_document
IndexFileUpsert ==
    /\ Running /\ run.pc = "upsert"
    /\ LET r == upsert_document(db, RepoPath, FilePath, Parsed.title,
                                Parsed.content, files[FilePath].mtime, Now)
       IN  /\ db' = r.db
           /\ committed' = r.db
           /\ run' = [run EXCEPT !.doc_id = r.ret, !.pc = "old_vectors"]
    /\ UNCHANGED <<ct, sq, vec_table, vb, other, vec, files, hist, api>>

\* A mutant of the old-vector deletion: the step is left out
delete_old_vectors_skip(v, d, doc_id) == v

\* _index_file, lines 120-123: delete the vectors of the old chunks
delete_old_vectors(v, d, doc_id) ==
    LET old_chunks == get_chunks(d, doc_id)
    IN  IF old_chunks # <<>> THEN delete_vectors(v, Ids(old_chunks)) ELSE v

IndexFileDeleteOldVectors ==
    /\ Running /\ run.pc = "old_vectors"
    /\ vec' = delete_old_vectors(vec, db, run.doc_id)
    /\ run' = [run EXCEPT !.pc = "insert_chunks"]
    /\ UNCHANGED <<ct, sq, vec_table, vb, other, db, committed, files, hist, api>>

\* _index_file, lines 125-132: chunk the content, db.insert_chunks; an
\* IntegrityError leaves the run, nothing of the call having been committed
IndexFileInsertChunks ==
    /\ Running /\ run.pc = "insert_chunks"
    /\ LET r == insert_chunks(db, run.doc_id, ChunkData(TextChunks))
       IN  IF r.raised
           THEN /\ run' = [run EXCEPT !.status = "aborted"]
                /\ UNCHANGED <<db, committed>>
           ELSE /\ db' = r.db
                /\ committed' = r.db
                /\ run' = [run EXCEPT !.chunk_ids = r.ret, !.pc = "add_vectors"]
    /\ UNCHANGED <<ct, sq, vec_table, vb, other, vec, files, hist, api>>

\* A mutant of the embedding step: the vectors are never stored
store_embeddings_skip(v, chunk_ids, texts) == v

\* _index_file, lines 134-138: embed the chunk texts and store the vectors
store_embeddings(v, chunk_ids, texts) ==
    IF chunk_ids # <<>>
    THEN LET vectors == [i \in 1..Len(texts) |-> encode(texts[i])]
         IN  add_vectors(v, chunk_ids, vectors)
    ELSE v

IndexFileAddVectors ==
    /\ Running /\ run.pc = "add_vectors"
    /\ vec' = store_embeddings(vec, run.chunk_ids, Texts_of(TextChunks))
    /\ run' = [run EXCEPT !.pc = "insert_images"]
    /\ UNCHANGED <<ct, sq, vec_table, vb, other, db, committed, files, hist, api>>

\* _index_file, lines 140-149: db.insert_images, return True
IndexFileInsertImages ==
    /\ Running /\ run.pc = "insert_images"
    /\ LET r == insert_images(db, run.doc_id, Parsed.images)
       IN  IF r.raised
           THEN /\ run' = [run EXCEPT !.status = "aborted"]
                /\ UNCHANGED <<db, committed>>
           ELSE /\ db' = r.db
                /\ committed' = r.db
                /\ run' = [run EXCEPT !.pc = "returned", !.ret = TRUE,
                                      !.why = "indexed"]
    /\ UNCHANGED <<ct, sq, vec_table, vb, other, vec, files, hist, api>>

\* lines 176-178 and 210-212: count the file, go on to the next one
IndexFileReturn ==
    /\ Running /\ run.pc = "returned"
    /\ LET r == [ClearLocals(run) EXCEPT
                    !.indexed = IF run.ret THEN @ + 1 ELSE @,
                    !.file_i = @ + 1]
       IN  run' = IF r.file_i > Len(r.md_files) THEN AfterFiles(r)
                  ELSE [r EXCEPT !.pc = "index_file"]
    /\ UNCHANGED <<ct, sq, vec_table, vb, other, db, committed, vec, files, hist, api>>

\* update_index, lines 215-216: the stored paths the scan did not return
UpdateRemovedScan ==
    /\ Running /\ run.pc = "removed_scan"
    /\ LET rm == get_all_paths(db, RepoPath) \ Range(run.md_files)
       IN  run' = IF rm = {}
                  THEN [run EXCEPT !.pc = "scan", !.repo_i = @ + 1]
                  ELSE [run EXCEPT !.pc = "remove", !.rm = rm]
    /\ UNCHANGED <<ct, sq, vec_table, vb, other, db, committed, vec, files, hist, api>>

\* update_index, lines 216-221: look the document of the next path up and
\* delete its vectors; a path whose document is gone by now is passed over
UpdateDeleteVectors ==
    /\ Running /\ run.pc = "remove"
    /\ \E path \in run.rm :
         LET doc == get_document_by_path(db, path)
         IN  IF doc # NoRow
             THEN /\ vec' = delete_old_vectors(vec, db, doc.id)
                  /\ run' = [run EXCEPT !.rm = @ \ {path}, !.rm_doc = doc.id,
                                        !.pc = "remove_doc"]
             ELSE /\ vec' = vec
                  /\ run' = IF run.rm = {path}
                            THEN [run EXCEPT !.rm = {}, !.pc = "scan",
                                             !.repo_i = @ + 1]
                            ELSE [run EXCEPT !.rm = @ \ {path}]
    /\ UNCHANGED <<ct, sq, vec_table, vb, other, db, committed, files, hist, api>>

\* update_index, lines 222-224: db.delete_document, removed += 1
UpdateDeleteDocument ==
    /\ Running /\ run.pc = "remove_doc"
    /\ LET r == delete_document(db, run.rm_doc)
       IN  /\ db' = r.db
           /\ committed' = r.db
    /\ run' = IF run.rm = {}
              THEN [run EXCEPT !.removed = @ + 1, !.rm_doc = 0,
                               !.pc = "scan", !.repo_i = @ + 1]
              ELSE [run EXCEPT !.removed = @ + 1, !.rm_doc = 0, !.pc = "remove"]
    /\ UNCHANGED <<ct, sq, vec_table, vb, other, vec, files, hist, api>>

\* A call of the run raises (I/O error, embedding failure, ...): nothing but
\* the read of the file is guarded, so the exception leaves the run; the
\* connection is dropped with whatever it had not committed.
Fail ==
    /\ Running
    /\ hist.failures < MaxFailures
    /\ run' = [run EXCEPT !.status = "aborted"]
    /\ db' = committed
    /\ hist' = [hist EXCEPT !.failures = @ + 1,
                            !.interrupted = IF run.pc = "remove_doc"
                                            THEN run.rm_doc ELSE @,
                            !.cut = IF run.pc \in {"old_vectors", "insert_chunks",
                                                   "add_vectors"}
                                    THEN run.doc_id ELSE @]
    /\ UNCHANGED <<ct, sq, vec_table, vb, other, committed, vec, files, api>>

\* The file tree changes between two runs: a file is written, removed or
\* made unreadable.
Edit ==
    /\ ~Running
    /\ hist.edits < MaxEdits
    /\ \E p \in Paths : \E f \in FileStates(Now + 1) :
         /\ f.kind # files[p].kind \/ f.content # files[p].content
         /\ files' = [files EXCEPT ![p] = f]
    /\ hist' = [hist EXCEPT !.edits = @ + 1, !.last = "none"]
    /\ UNCHANGED <<ct, sq, vec_table, vb, other, db, committed, vec, run, api>>

Init ==
    /\ ct = CtIdle
    /\ db = EmptyDb
    /\ committed = EmptyDb
    /\ vec = {}
    /\ files = [p \in Paths |-> [kind |-> "file", content |-> DocOne, mtime |-> 0]]
    /\ run = IdleRun
    /\ hist = [runs |-> 0, edits |-> 0, failures |-> 0, interrupted |-> 0, cut |-> 0,
               last |-> "none", prev |-> "none",
               start |-> NoStart]
    /\ api = NoCall
    /\ sq = NoSearch /\ vec_table = FALSE
    /\ vb = NoBackend /\ other = IdleRun

Next ==
    \/ StartRebuild \/ StartUpdate
    \/ RebuildClear \/ RebuildDeleteDocument
    \/ ScanRepo \/ Finish
    \/ IndexFileRead \/ IndexFileUpsert \/ IndexFileDeleteOldVectors
    \/ IndexFileInsertChunks \/ IndexFileAddVectors \/ IndexFileInsertImages
    \/ IndexFileReturn
    \/ UpdateRemovedScan \/ UpdateDeleteVectors \/ UpdateDeleteDocument
    \/ Fail \/ Edit

Spec == Init /\ [][Next]_vars

\* chunk_text alone
InitChunk ==
    /\ CtInit
    /\ db = EmptyDb /\ committed = EmptyDb /\ vec = {}
    /\ files = [p \in Paths |-> Absent]
    /\ run = IdleRun
    /\ hist = [runs |-> 0, edits |-> 0, failures |-> 0, interrupted |-> 0, cut |-> 0,
               last |-> "none", prev |-> "none",
               start |-> NoStart]
    /\ api = NoCall
    /\ sq = NoSearch /\ vec_table = FALSE
    /\ vb = NoBackend /\ other = IdleRun

NextChunk == ChunkTextReturnEarly \/ ChunkTextEnterLoop \/ ChunkTextIterate

SpecChunk == InitChunk /\ [][NextChunk]_vars

\* Bound of the texts of the calls followed to their return
MaxFairTokens == 2

FairTexts == {Concat(ts) : ts \in UNION {[1..n -> Tokens] : n \in 0..MaxFairTokens}}

\* lines 17-19: chunk_text is called with its three arguments
ChunkTextCall ==
    /\ ct.pc = "idle"
    /\ \E t \in FairTexts : \E sz \in 1..MaxChunkSize : \E ov \in 0..MaxOverlap :
          ct' = [text |-> t, size |-> sz, overlap |-> ov, pc |-> "entry",
                 start |-> 0, chunks |-> <<>>, iters |-> 0]
    /\ UNCHANGED <<db, committed, vec, files, run, hist, api, sq, vec_table, vb, other>>

InitChunkFair ==
    /\ ct = CtIdle
    /\ db = EmptyDb /\ committed = EmptyDb /\ vec = {}
    /\ files = [p \in Paths |-> Absent]
    /\ run = IdleRun
    /\ hist = [runs |-> 0, edits |-> 0, failures |-> 0, interrupted |-> 0, cut |-> 0,
               last |-> "none", prev |-> "none",
               start |-> NoStart]
    /\ api = NoCall
    /\ sq = NoSearch /\ vec_table = FALSE
    /\ vb = NoBackend /\ other = IdleRun

NextChunkFair == ChunkTextCall \/ NextChunk

\* chunk_text is a sequential call: it is made, and the interpreter keeps
\* running it
SpecChunkFair == InitChunkFair /\ [][NextChunkFair]_vars /\ WF_vars(NextChunkFair)

----------------------------------------------------------------------------
(* The Database API called directly, on one connection (SpecDb) *)

\* Bounds of the ids handed out
MaxDbDocs == 2
MaxDbChunks == 3
MaxDbImages == 2

DbPaths == {ScanPaths[1], ScanPaths[2]}

\* the argument tuples of upsert_document
DocVersions ==
    {[repo |-> "A", title |-> <<"a">>, content |-> DocOne,
      last_modified |-> 1, now |-> 1],
     [repo |-> "B", title |-> <<"a", "a">>, content |-> DocTwo,
      last_modified |-> 2, now |-> 2]}

ChunkTuple(i, content, s, e) ==
    [chunk_index |-> i, content |-> content, start_char |-> s, end_char |-> e]

\* the chunk lists handed to insert_chunks; the last one holds a tuple whose
\* content is None, which the NOT NULL column refuses
ChunkLists ==
    { <<>>,
      <<ChunkTuple(0, <<"x", "y">>, 0, 2)>>,
      <<ChunkTuple(0, <<"a", "b">>, 0, 2), ChunkTuple(1, <<"b", "c">>, 1, 3)>>,
      <<ChunkTuple(0, <<"p", "q">>, 0, 2), ChunkTuple(1, None, 1, 3)>> }

ImageTuple(o, a, alt) ==
    [original_path |-> o, absolute_path |-> a, alt_text |-> alt]

\* the image lists handed to insert_images; the last one holds a tuple whose
\* absolute_path is None
ImageLists ==
    { <<>>,
      <<ImageTuple(<<"pic.png">>, <<"A", "pic.png">>, "pic")>>,
      <<ImageTuple(<<"fig.png">>, <<"A", "fig.png">>, "fig"),
        ImageTuple(<<"bad.png">>, None, "bad")>> }

ImageIdsOf(d, document_id) ==
    {i.id : i \in {x \in d.images : x.document_id = document_id}}

Had(d, doc) ==
    [doc |-> doc, chunks |-> ChunkIdsOf(d, doc.id), images |-> ImageIdsOf(d, doc.id)]

\* a method that returned has committed; one that raised has not
Called(op, args, doc, r) ==
    /\ db' = r.db
    /\ committed' = IF r.raised THEN committed ELSE r.db
    /\ api' = [op |-> op, args |-> args, ret |-> r.ret, raised |-> r.raised,
               had |-> Had(db, doc)]
    /\ UNCHANGED <<ct, sq, vec_table, vb, other, vec, files, run, hist>>

DbUpsertDocument ==
    \E path \in DbPaths : \E v \in DocVersions :
        /\ DocsByPath(db, path) # {} \/ db.seq.documents < MaxDbDocs
        /\ Called("upsert_document",
                  [NoArgs EXCEPT !.path = path, !.version = v.now],
                  get_document_by_path(db, path),
                  upsert_document(db, v.repo, path, v.title, v.content,
                                  v.last_modified, v.now))

DbDeleteDocument ==
    \E doc_id \in 1..(db.seq.documents + 1) :
        Called("delete_document", [NoArgs EXCEPT !.doc_id = doc_id],
               get_document(db, doc_id), delete_document(db, doc_id))

DbInsertChunks ==
    \E doc_id \in 1..(db.seq.documents + 1) : \E chunks \in ChunkLists :
        /\ db.seq.chunks + Len(chunks) <= MaxDbChunks
        /\ Called("insert_chunks",
                  [NoArgs EXCEPT !.doc_id = doc_id, !.rows = chunks],
                  get_document(db, doc_id), insert_chunks(db, doc_id, chunks))

DbInsertImages ==
    \E doc_id \in 1..(db.seq.documents + 1) : \E images \in ImageLists :
        /\ db.seq.images + Len(images) <= MaxDbImages
        /\ Called("insert_images",
                  [NoArgs EXCEPT !.doc_id = doc_id, !.rows = images],
                  get_document(db, doc_id), insert_images(db, doc_id, images))

\* close(): the connection goes, and with it what it had not committed; the
\* next call opens a new one
DbClose ==
    /\ db # committed
    /\ db' = committed
    /\ api' = [NoCall EXCEPT !.op = "close"]
    /\ UNCHANGED <<ct, sq, vec_table, vb, other, committed, vec, files, run, hist>>

InitDb ==
    /\ ct = CtIdle
    /\ db = EmptyDb /\ committed = EmptyDb /\ vec = {}
    /\ files = [p \in Paths |-> Absent]
    /\ run = IdleRun
    /\ hist = [runs |-> 0, edits |-> 0, failures |-> 0, interrupted |-> 0, cut |-> 0,
               last |-> "none", prev |-> "none",
               start |-> NoStart]
    /\ api = NoCall
    /\ sq = NoSearch /\ vec_table = FALSE
    /\ vb = NoBackend /\ other = IdleRun

NextDb ==
    \/ DbUpsertDocument \/ DbDeleteDocument
    \/ DbInsertChunks \/ DbInsertImages \/ DbClose

SpecDb == InitDb /\ [][NextDb]_vars

----------------------------------------------------------------------------
(* semantic_search: search.py, with a concurrent indexer (SpecSearch) *)

\* Bounds of the arguments of semantic_search
MaxLimit == 3
MaxThreshold == 3

\* the attributes of a Config object: the fields of the dataclass
ConfigFields ==
    {"db_path", "vector_backend", "embedding_model", "chunk_size",
     "chunk_overlap", "repos"}

HasAttr(name) == name \in ConfigFields

\* line 47: the explicit threshold if it is not None, else the attribute
\* config.distance_threshold, whose lookup raises when Config has none
Threshold(distance_threshold) ==
    IF distance_threshold.given
    THEN [raised |-> FALSE, threshold |-> distance_threshold]
    ELSE [raised |-> ~HasAttr("distance_threshold"), threshold |-> NotGiven]

Queries == { <<"a">>, <<"a", "a">>, <<"#">> }

\* encode_query: the embedding of the query text
encode_query(query) == encode(query)

\* The distance of two embeddings, standing for the metric of the vector
\* extension: the number of positions at which the embedded texts differ
Distance(e1, e2) ==
    LET a == e1[2]
        b == e2[2]
    IN  Cardinality({i \in 1..Max({Len(a), Len(b)}) :
                        i > Len(a) \/ i > Len(b) \/ a[i] # b[i]})

\* vector.search(query_vector, limit): the limit nearest entries, nearest
\* first; entries at the same distance come in any order
search(v, query_vector, limit) ==
    LET k == Min2(limit, Cardinality(v))
        dist(r) == Distance(r.embedding, query_vector)
    IN  {[i \in 1..k |-> [chunk_id |-> g[i].chunk_id, distance |-> dist(g[i])]] :
            g \in {f \in [1..k -> v] :
                      /\ \A i, j \in 1..k :
                            i < j => f[i] # f[j] /\ dist(f[i]) <= dist(f[j])
                      /\ \A r \in v \ Range(f) :
                            \A i \in 1..k : dist(f[i]) <= dist(r)}}

\* A mutant of the threshold test: a hit at the threshold is dropped
WithinStrict(distance, threshold) == distance < threshold.value

\* line 61: the hit is kept unless distance > threshold
Within(distance, threshold) == ~(distance > threshold.value)

\* A mutant of the result: the chunk text is taken from the document title
SearchResultTitleAsContent(hit, chunk, doc) ==
    [chunk_id |-> hit.chunk_id, document_id |-> doc.id,
     document_path |-> doc.path, document_title |-> doc.title,
     repo |-> doc.repo, chunk_content |-> doc.title,
     chunk_index |-> chunk.chunk_index, distance |-> hit.distance]

\* lines 69-78: the SearchResult of a hydrated hit
SearchResult(hit, chunk, doc) ==
    [chunk_id |-> hit.chunk_id, document_id |-> doc.id,
     document_path |-> doc.path, document_title |-> doc.title,
     repo |-> doc.repo, chunk_content |-> chunk.content,
     chunk_index |-> chunk.chunk_index, distance |-> hit.distance]

\* the loop goes on to the next hit, or the call returns
NextHit(q) ==
    IF q.i >= Len(q.hits)
    THEN [q EXCEPT !.pc = "returned", !.chunk = NoRow]
    ELSE [q EXCEPT !.pc = "hit", !.i = @ + 1, !.chunk = NoRow]

\* A mutant of the hydration: a missing row is used as if it were there
SkipAsError(q, why) == [q EXCEPT !.pc = "raised", !.error = "AttributeError"]

\* `continue`: the hit is dropped, with the reason kept for the record
Skip(q, why) ==
    NextHit([q EXCEPT !.skipped = Append(@, [hit |-> q.hits[q.i], why |-> why])])

\* lines 28-50: the call, with its arguments; the threshold is resolved
SearchCall ==
    /\ sq.pc = "idle"
    /\ \E query \in Queries : \E limit \in 0..MaxLimit :
       \E dt \in {NotGiven} \cup {[given |-> TRUE, value |-> t] : t \in 0..MaxThreshold} :
          LET th == Threshold(dt)
              q == [NoSearch EXCEPT !.query = query, !.limit = limit,
                                    !.distance_threshold = dt]
          IN  sq' = IF th.raised
                    THEN [q EXCEPT !.pc = "raised", !.error = "AttributeError"]
                    ELSE [q EXCEPT !.pc = "search", !.threshold = th.threshold]
    /\ UNCHANGED <<ct, db, committed, vec, files, run, hist, api, vec_table, vb, other>>

\* lines 52-57 (and 81-82): encode the query and search the vector index; the
\* SELECT raises when the table was never created
SearchVectors ==
    /\ sq.pc = "search"
    /\ IF ~vec_table
       THEN sq' = [sq EXCEPT !.pc = "raised", !.error = "OperationalError"]
       ELSE \E hits \in search(vec, encode_query(sq.query), sq.limit) :
               sq' = [sq EXCEPT !.hits = hits,
                                !.i = IF hits = <<>> THEN 0 ELSE 1,
                                !.pc = IF hits = <<>> THEN "returned" ELSE "hit"]
    /\ UNCHANGED <<ct, db, committed, vec, files, run, hist, api, vec_table, vb, other>>

\* lines 60-65: the threshold test and db.get_chunk for the next hit
SearchHit ==
    /\ sq.pc = "hit"
    /\ LET hit == sq.hits[sq.i]
           chunk == get_chunk(db, hit.chunk_id)
       IN  sq' = IF ~Within(hit.distance, sq.threshold) THEN Skip(sq, "threshold")
                 ELSE IF chunk = NoRow THEN Skip(sq, "chunk")
                 ELSE [sq EXCEPT !.pc = "document", !.chunk = chunk]
    /\ UNCHANGED <<ct, db, committed, vec, files, run, hist, api, vec_table, vb, other>>

\* lines 66-78: db.get_document for the chunk, and the result
SearchDocument ==
    /\ sq.pc = "document"
    /\ LET doc == get_document(db, sq.chunk.document_id)
       IN  sq' = IF doc = NoRow THEN Skip(sq, "document")
                 ELSE NextHit([sq EXCEPT !.results =
                         Append(@, SearchResult(sq.hits[sq.i], sq.chunk, doc))])
    /\ UNCHANGED <<ct, db, committed, vec, files, run, hist, api, vec_table, vb, other>>

\* An indexer in another process removes a document whose file is gone
\* (update_index, lines 219-221): first the vectors of its chunks
WriterDeleteVectors ==
    /\ \E doc \in db.docs :
          /\ ChunkIdsOf(db, doc.id) \cap VecIds(vec) # {}
          /\ vec' = delete_old_vectors(vec, db, doc.id)
    /\ UNCHANGED <<ct, db, committed, files, run, hist, api, sq, vec_table, vb, other>>

\* (update_index, line 222): then the document, with its chunks and images
WriterDeleteDocument ==
    /\ \E doc \in db.docs :
          /\ ChunkIdsOf(db, doc.id) \cap VecIds(vec) = {}
          /\ LET r == delete_document(db, doc.id)
             IN  db' = r.db /\ committed' = r.db
    /\ UNCHANGED <<ct, vec, files, run, hist, api, sq, vec_table, vb, other>>

\* _index_file (lines 111-144) on a new or changed file, as one function of
\* the store s = [db, vec, table]
IndexedFile(s, repo, path, content, now) ==
    LET parsed == parse_markdown(content, path, RepoRoot(repo))
        d1 == upsert_document(s.db, repo, path, parsed.title, parsed.content,
                              now, now)
        v1 == delete_old_vectors(s.vec, d1.db, d1.ret)
        text_chunks == chunk_text(parsed.content.text, ChunkSize, ChunkOverlap)
        d2 == insert_chunks(d1.db, d1.ret, ChunkData(text_chunks))
        v2 == store_embeddings(v1, d2.ret, Texts_of(text_chunks))
        d3 == insert_images(d2.db, d1.ret, parsed.images)
    IN  [db |-> d3.db, vec |-> v2, table |-> TRUE]

\* the stores a search can find: a database no index run has touched, one
\* that was initialised and is empty, and two that hold indexed files
SearchStores ==
    LET fresh == [db |-> EmptyDb, vec |-> {}, table |-> FALSE]
        built == [fresh EXCEPT !.table = TRUE]
        one == IndexedFile(built, "A", ScanPaths[1], DocOne, 1)
        two == IndexedFile(one, "B", ScanPaths[3], DocTwo, 2)
    IN  {fresh, built, one, two}

InitSearch ==
    /\ ct = CtIdle
    /\ \E s \in SearchStores :
          /\ db = s.db /\ committed = s.db /\ vec = s.vec /\ vec_table = s.table
    /\ files = [p \in Paths |-> Absent]
    /\ run = IdleRun
    /\ hist = [runs |-> 0, edits |-> 0, failures |-> 0, interrupted |-> 0, cut |-> 0,
               last |-> "none", prev |-> "none",
               start |-> [db |-> db, vec |-> vec, files |-> files]]
    /\ api = NoCall
    /\ sq = NoSearch
    /\ vb = NoBackend /\ other = IdleRun

NextSearch ==
    \/ SearchCall \/ SearchVectors \/ SearchHit \/ SearchDocument
    \/ WriterDeleteVectors \/ WriterDeleteDocument

SpecSearch == InitSearch /\ [][NextSearch]_vars

\* rebuild_index / update_index over repositories that have been indexed
\* before: A/1.md and B/1.md are stored as they are on disk
InitIndexed ==
    /\ ct = CtIdle
    /\ LET built == [db |-> EmptyDb, vec |-> {}, table |-> TRUE]
           one == IndexedFile(built, "A", ScanPaths[1], DocOne, 0)
           two == IndexedFile(one, "B", ScanPaths[3], DocTwo, 0)
       IN  /\ db = two.db /\ committed = two.db /\ vec = two.vec
           /\ vec_table = two.table
    /\ files = [p \in Paths |->
                  IF p = ScanPaths[1]
                  THEN [kind |-> "file", content |-> DocOne, mtime |-> 0]
                  ELSE IF p = ScanPaths[3]
                  THEN [kind |-> "file", content |-> DocTwo, mtime |-> 0]
                  ELSE Absent]
    /\ run = IdleRun
    /\ hist = [runs |-> 0, edits |-> 0, failures |-> 0, interrupted |-> 0, cut |-> 0,
               last |-> "none", prev |-> "none",
               start |-> NoStart]
    /\ api = NoCall
    /\ sq = NoSearch
    /\ vb = NoBackend /\ other = IdleRun

SpecIndexed == InitIndexed /\ [][Next]_vars

\* The store after the configuration was edited (SpecRespelled): A/1.md and
\* A/2.md were indexed while config.repos spelled the repository "A/", the
\* label upsert_document stored with them; the list now spells it "A", which
\* scans the same paths; A/2.md has been removed from the disk since and
\* B/1.md written.
OldLabel == "A/"

InitRespelled ==
    /\ ct = CtIdle
    /\ LET built == [db |-> EmptyDb, vec |-> {}, table |-> TRUE]
           one == IndexedFile(built, "A", ScanPaths[1], DocOne, 0)
           two == IndexedFile(one, "A", ScanPaths[2], DocTwo, 0)
           old == [two.db EXCEPT
                     !.docs = {[r EXCEPT !.repo = OldLabel] : r \in @}]
       IN  /\ db = old /\ committed = old /\ vec = two.vec
           /\ vec_table = two.table
    /\ files = [p \in Paths |->
                  IF p = ScanPaths[1]
                  THEN [kind |-> "file", content |-> DocOne, mtime |-> 0]
                  ELSE IF p = ScanPaths[3]
                  THEN [kind |-> "file", content |-> DocTwo, mtime |-> 0]
                  ELSE Absent]
    /\ run = IdleRun
    /\ hist = [runs |-> 0, edits |-> 0, failures |-> 0, interrupted |-> 0, cut |-> 0,
               last |-> "none", prev |-> "none",
               start |-> NoStart]
    /\ api = NoCall
    /\ sq = NoSearch
    /\ vb = NoBackend /\ other = IdleRun

SpecRespelled == InitRespelled /\ [][Next]_vars

\* semantic_search in one process while rebuild_index or update_index runs in
\* another (SpecSearchRun): the repositories have been indexed, then A/1.md
\* was rewritten and B/1.md removed, and one run and searches take steps in
\* any order
InitSearchRun ==
    /\ ct = CtIdle
    /\ LET built == [db |-> EmptyDb, vec |-> {}, table |-> TRUE]
           one == IndexedFile(built, "A", ScanPaths[1], DocOne, 0)
           two == IndexedFile(one, "B", ScanPaths[3], DocTwo, 0)
       IN  /\ db = two.db /\ committed = two.db /\ vec = two.vec
           /\ vec_table = two.table
    /\ files = [p \in Paths |->
                  IF p = ScanPaths[1]
                  THEN [kind |-> "file", content |-> DocTwo, mtime |-> 1]
                  ELSE Absent]
    /\ run = IdleRun
    /\ hist = [runs |-> MaxRuns - 1, edits |-> 1, failures |-> 0, interrupted |-> 0, cut |-> 0,
               last |-> "none", prev |-> "none",
               start |-> NoStart]
    /\ api = NoCall
    /\ sq = NoSearch
    /\ vb = NoBackend /\ other = IdleRun

NextSearchRun ==
    \/ SearchCall \/ SearchVectors \/ SearchHit \/ SearchDocument
    \/ StartRebuild \/ StartUpdate
    \/ RebuildClear \/ RebuildDeleteDocument
    \/ ScanRepo \/ Finish
    \/ IndexFileRead \/ IndexFileUpsert \/ IndexFileDeleteOldVectors
    \/ IndexFileInsertChunks \/ IndexFileAddVectors \/ IndexFileInsertImages
    \/ IndexFileReturn
    \/ UpdateRemovedScan \/ UpdateDeleteVectors \/ UpdateDeleteDocument

SpecSearchRun == InitSearchRun /\ [][NextSearchRun]_vars

\* Two processes call rebuild_index / update_index on the same database
\* (SpecTwo). Each has its own locals; `run` is the call that takes the next
\* step and `other` the call that waits. The scheduler lets the other
\* process go on, or a second process start while the first is under way.
Switch ==
    /\ other.status = "running" \/ (Running /\ other.status = "idle")
    /\ run' = other
    /\ other' = run
    /\ UNCHANGED <<ct, sq, vec_table, vb, db, committed, vec, files, hist, api>>

\* the repositories have been indexed, then A/1.md was rewritten and B/1.md
\* removed; two runs are to come
InitTwo ==
    /\ ct = CtIdle
    /\ LET built == [db |-> EmptyDb, vec |-> {}, table |-> TRUE]
           one == IndexedFile(built, "A", ScanPaths[1], DocOne, 0)
           two == IndexedFile(one, "B", ScanPaths[3], DocTwo, 0)
       IN  /\ db = two.db /\ committed = two.db /\ vec = two.vec
           /\ vec_table = two.table
    /\ files = [p \in Paths |->
                  IF p = ScanPaths[1]
                  THEN [kind |-> "file", content |-> DocTwo, mtime |-> 1]
                  ELSE Absent]
    /\ run = IdleRun
    /\ hist = [runs |-> MaxRuns - 2, edits |-> 1, failures |-> 0, interrupted |-> 0, cut |-> 0,
               last |-> "none", prev |-> "none",
               start |-> NoStart]
    /\ api = NoCall
    /\ sq = NoSearch
    /\ vb = NoBackend /\ other = IdleRun

NextTwo ==
    \/ Switch
    \/ StartRebuild \/ StartUpdate
    \/ RebuildClear \/ RebuildDeleteDocument
    \/ ScanRepo \/ Finish
    \/ IndexFileRead \/ IndexFileUpsert \/ IndexFileDeleteOldVectors
    \/ IndexFileInsertChunks \/ IndexFileAddVectors \/ IndexFileInsertImages
    \/ IndexFileReturn
    \/ UpdateRemovedScan \/ UpdateDeleteVectors \/ UpdateDeleteDocument

SpecTwo == InitTwo /\ [][NextTwo]_vars

----------------------------------------------------------------------------
(* The vector backends: vector/__init__.py, vec_backend.py, vss_backend.py
   (SpecVector) *)

\* Bound on the number of backend calls of one behaviour
MaxVbCalls == 4

\* str.lower() on the letters of the model's backend names
Lower(name) ==
    [i \in 1..Len(name) |->
        CASE name[i] = "V" -> "v" [] name[i] = "E" -> "e" [] name[i] = "C" -> "c"
          [] name[i] = "S" -> "s" [] OTHER -> name[i]]

\* values of config.vector_backend
BackendNames ==
    { <<"v", "e", "c">>, <<"V", "E", "C">>, <<"V", "e", "c">>,
      <<"v", "s", "s">>, <<"V", "S", "S">>, <<"v", "s", "S">>,
      <<"v", "e", "x">>, <<"v", "e", "c", " ">>, <<>> }

\* A mutant of get_vector_backend: the name is compared as it is written
get_vector_backend_as_written(name, installed) ==
    LET kind == IF name = <<"v", "e", "c">> THEN "vec"
                ELSE IF name = <<"v", "s", "s">> THEN "vss" ELSE "none"
        alt == IF kind = "vec" THEN "vss" ELSE "vec"
    IN  IF kind = "none"
        THEN [kind |-> "none", raised |-> "ValueError", tried |-> <<>>]
        ELSE IF kind \in installed
        THEN [kind |-> kind, raised |-> "none", tried |-> <<kind>>]
        ELSE IF alt \in installed
        THEN [kind |-> alt, raised |-> "none", tried |-> <<kind, alt>>]
        ELSE [kind |-> "none", raised |-> "ImportError", tried |-> <<kind, alt>>]

\* get_vector_backend: the constructors it calls, in order, and the backend it
\* returns or the exception it raises; a constructor raises ImportError when
\* its extension package is not installed
get_vector_backend(name, installed) ==
    LET backend_type == Lower(name)
        kind == IF backend_type = <<"v", "e", "c">> THEN "vec"
                ELSE IF backend_type = <<"v", "s", "s">> THEN "vss" ELSE "none"
        alt == IF kind = "vec" THEN "vss" ELSE "vec"
    IN  IF kind = "none"
        THEN [kind |-> "none", raised |-> "ValueError", tried |-> <<>>]
        ELSE IF kind \in installed
        THEN [kind |-> kind, raised |-> "none", tried |-> <<kind>>]
        ELSE IF alt \in installed
        THEN [kind |-> alt, raised |-> "none", tried |-> <<kind, alt>>]
        ELSE [kind |-> "none", raised |-> "ImportError", tried |-> <<kind, alt>>]

\* init_index(dimension) on a backend's tables: CREATE ... IF NOT EXISTS.
\* The vec backend has the one table vec_chunks (rows, [chunk_id, embedding]);
\* the vss backend has vss_chunks ([rowid, embedding]) and vss_chunk_map
\* ([rowid, chunk_id], rowid AUTOINCREMENT), created and dropped together.
init_index(t, dimension) ==
    IF t.exists THEN t
    ELSE [NoTable EXCEPT !.exists = TRUE, !.dim = dimension]

\* A mutant of SqliteVssBackend.add_vectors: the row mapped to the id is not
\* deleted first
RECURSIVE vss_add_vectors_no_delete(_, _, _)
vss_add_vectors_no_delete(t, ids, vectors) ==
    IF ids = <<>> \/ vectors = <<>> THEN t
    ELSE LET row_id == t.seq + 1
         IN  vss_add_vectors_no_delete(
                [t EXCEPT !.vss_chunk_map =
                             @ \cup {[rowid |-> row_id, chunk_id |-> Head(ids)]},
                          !.vss_chunks =
                             @ \cup {[rowid |-> row_id, embedding |-> Head(vectors)]},
                          !.seq = row_id],
                Tail(ids), Tail(vectors))

\* lines 73-81 and 103-111: the rows of the map with the chunk id are looked
\* up; if there is one, the vss_chunks row of its rowid and the map rows of
\* the chunk id are deleted
vss_delete_existing(t, chunk_id) ==
    LET existing == {m \in t.vss_chunk_map : m.chunk_id = chunk_id}
    IN  IF existing = {} THEN t
        ELSE LET e == CHOOSE m \in existing : \A o \in existing : m.rowid <= o.rowid
             IN  [t EXCEPT !.vss_chunks = {r \in @ : r.rowid # e.rowid},
                           !.vss_chunk_map = {m \in @ : m.chunk_id # chunk_id}]

\* SqliteVssBackend.add_vectors: per id, delete the mapped row if there is
\* one, INSERT into the map (AUTOINCREMENT rowid), INSERT the vector
RECURSIVE vss_add_vectors(_, _, _)
vss_add_vectors(t, ids, vectors) ==
    IF ids = <<>> \/ vectors = <<>> THEN t
    ELSE LET d == vss_delete_existing(t, Head(ids))
             row_id == d.seq + 1
         IN  vss_add_vectors(
                [d EXCEPT !.vss_chunk_map =
                             @ \cup {[rowid |-> row_id, chunk_id |-> Head(ids)]},
                          !.vss_chunks =
                             @ \cup {[rowid |-> row_id, embedding |-> Head(vectors)]},
                          !.seq = row_id],
                Tail(ids), Tail(vectors))

\* A mutant of SqliteVssBackend.delete_vectors: only the map row is deleted
RECURSIVE vss_delete_vectors_map_only(_, _)
vss_delete_vectors_map_only(t, ids) ==
    IF ids = <<>> THEN t
    ELSE vss_delete_vectors_map_only(
            [t EXCEPT !.vss_chunk_map = {m \in @ : m.chunk_id # Head(ids)}],
            Tail(ids))

\* SqliteVssBackend.delete_vectors: per id, delete the mapped rows
RECURSIVE vss_delete_vectors(_, _)
vss_delete_vectors(t, ids) ==
    IF ids = <<>> THEN t
    ELSE vss_delete_vectors(vss_delete_existing(t, Head(ids)), Tail(ids))

\* SqliteVssBackend.search: the limit nearest rows of vss_chunks, each looked
\* up in the map by rowid; a row without a map row is left out
vss_search(t, query_vector, limit) ==
    LET by_rowid == {[chunk_id |-> r.rowid, embedding |-> r.embedding] :
                        r \in t.vss_chunks}
        mapped(h) == \E m \in t.vss_chunk_map : m.rowid = h.chunk_id
        chunk_of(h) == (CHOOSE m \in t.vss_chunk_map : m.rowid = h.chunk_id).chunk_id
    IN  {LET kept == SelectSeq(rows, mapped)
         IN  [i \in 1..Len(kept) |->
                [chunk_id |-> chunk_of(kept[i]), distance |-> kept[i].distance]] :
            rows \in search(by_rowid, query_vector, limit)}

\* what a backend's tables hold as [chunk_id, embedding]: the rows of
\* vec_chunks, and the rows of vss_chunks joined to the map on rowid
Entries(t) ==
    {[chunk_id |-> r.chunk_id, embedding |-> r.embedding] : r \in t.rows}
        \cup {[chunk_id |-> x[1].chunk_id, embedding |-> x[2].embedding] :
                 x \in {y \in t.vss_chunk_map \X t.vss_chunks :
                           y[1].rowid = y[2].rowid}}

\* count(): SELECT COUNT(*) of vec_chunks or of vss_chunk_map, 0 when the
\* SELECT raises OperationalError
count(t) ==
    IF t.exists THEN Cardinality(t.rows) + Cardinality(t.vss_chunk_map) ELSE 0

\* clear() on a backend's tables: DROP TABLE IF EXISTS, then init_index when
\* self._dimension is set
clear_index(t, dimension) ==
    IF dimension # 0 THEN init_index(NoTable, dimension) ELSE NoTable

Called_vb(op, ids, vectors) ==
    [vb EXCEPT !.calls = @ + 1,
               !.last = [op |-> op, ids |-> ids, vectors |-> vectors,
                         raised |-> "none", tried |-> <<>>, count |-> 0,
                         hits |-> <<>>, pre |-> vb.tables]]

\* the argument lists of add_vectors and delete_vectors
IdLists == { <<>>, <<1>>, <<2>>, <<1, 2>>, <<1, 1>> }

VectorsFor(ids) == [1..Len(ids) -> {encode(q) : q \in Queries}]

\* get_vector_backend(config): a new backend object, _dimension None
GetVectorBackend ==
    /\ vb.calls < MaxVbCalls
    /\ \E name \in BackendNames :
         LET r == get_vector_backend(name, vb.installed)
             c == Called_vb("get_vector_backend", <<>>, <<>>)
         IN  vb' = [c EXCEPT !.vector_backend = name, !.kind = r.kind,
                             !.dimension = 0, !.last.raised = r.raised,
                             !.last.tried = r.tried]
    /\ UNCHANGED <<ct, sq, vec_table, other, db, committed, vec, files, run, hist, api>>

\* init_index(dimension) of the backend object
VbInitIndex ==
    /\ vb.calls < MaxVbCalls /\ vb.kind # "none"
    /\ \E dimension \in {1, 2} :
         vb' = [Called_vb("init_index", <<>>, <<>>) EXCEPT
                   !.dimension = dimension,
                   !.tables[vb.kind] = init_index(@, dimension)]
    /\ UNCHANGED <<ct, sq, vec_table, other, db, committed, vec, files, run, hist, api>>

\* add_vectors(ids, vectors): nothing for an empty list; the first statement
\* raises OperationalError when the table does not exist
VbAddVectors ==
    /\ vb.calls < MaxVbCalls /\ vb.kind # "none"
    /\ \E ids \in IdLists : \E vectors \in VectorsFor(ids) :
         LET c == Called_vb("add_vectors", ids, vectors)
             t == vb.tables[vb.kind]
         IN  vb' = IF ids = <<>> THEN c
                   ELSE IF ~t.exists THEN [c EXCEPT !.last.raised = "OperationalError"]
                   ELSE IF vb.kind = "vec"
                   THEN [c EXCEPT !.tables["vec"].rows = add_vectors(@, ids, vectors)]
                   ELSE [c EXCEPT !.tables["vss"] = vss_add_vectors(@, ids, vectors)]
    /\ UNCHANGED <<ct, sq, vec_table, other, db, committed, vec, files, run, hist, api>>

\* delete_vectors(ids)
VbDeleteVectors ==
    /\ vb.calls < MaxVbCalls /\ vb.kind # "none"
    /\ \E ids \in IdLists :
         LET c == Called_vb("delete_vectors", ids, <<>>)
             t == vb.tables[vb.kind]
         IN  vb' = IF ids = <<>> THEN c
                   ELSE IF ~t.exists THEN [c EXCEPT !.last.raised = "OperationalError"]
                   ELSE IF vb.kind = "vec"
                   THEN [c EXCEPT !.tables["vec"].rows = delete_vectors(@, ids)]
                   ELSE [c EXCEPT !.tables["vss"] = vss_delete_vectors(@, ids)]
    /\ UNCHANGED <<ct, sq, vec_table, other, db, committed, vec, files, run, hist, api>>

\* search(query_vector, limit)
VbSearch ==
    /\ vb.calls < MaxVbCalls /\ vb.kind # "none"
    /\ \E q \in Queries : \E limit \in 0..MaxLimit :
         LET c == Called_vb("search", <<>>, <<encode_query(q)>>)
             t == vb.tables[vb.kind]
         IN  IF ~t.exists
             THEN vb' = [c EXCEPT !.last.raised = "OperationalError"]
             ELSE \E hits \in IF vb.kind = "vec"
                               THEN search(t.rows, encode_query(q), limit)
                               ELSE vss_search(t, encode_query(q), limit) :
                     vb' = [c EXCEPT !.last.hits = hits]
    /\ UNCHANGED <<ct, sq, vec_table, other, db, committed, vec, files, run, hist, api>>

\* count(): the number of rows, 0 when the SELECT raises OperationalError
VbCount ==
    /\ vb.calls < MaxVbCalls /\ vb.kind # "none"
    /\ LET t == vb.tables[vb.kind]
       IN  vb' = [Called_vb("count", <<>>, <<>>) EXCEPT
                     !.last.count = count(t)]
    /\ UNCHANGED <<ct, sq, vec_table, other, db, committed, vec, files, run, hist, api>>

\* clear()
VbClear ==
    /\ vb.calls < MaxVbCalls /\ vb.kind # "none"
    /\ vb' = [Called_vb("clear", <<>>, <<>>) EXCEPT
                 !.tables[vb.kind] = clear_index(@, vb.dimension)]
    /\ UNCHANGED <<ct, sq, vec_table, other, db, committed, vec, files, run, hist, api>>

\* the extension packages installed in the environment do not change
InitVector ==
    /\ ct = CtIdle
    /\ db = EmptyDb /\ committed = EmptyDb /\ vec = {}
    /\ files = [p \in Paths |-> Absent]
    /\ run = IdleRun
    /\ hist = [runs |-> 0, edits |-> 0, failures |-> 0, interrupted |-> 0, cut |-> 0,
               last |-> "none", prev |-> "none", start |-> NoStart]
    /\ api = NoCall
    /\ sq = NoSearch /\ vec_table = FALSE
    /\ \E installed \in SUBSET {"vec", "vss"} :
          vb = [NoBackend EXCEPT !.installed = installed]
    /\ other = IdleRun

NextVector ==
    \/ GetVectorBackend \/ VbInitIndex \/ VbAddVectors \/ VbDeleteVectors
    \/ VbSearch \/ VbCount \/ VbClear

SpecVector == InitVector /\ [][NextVector]_vars

----------------------------------------------------------------------------
(* docs_fetch: mcp_server.py (SpecFetch) *)

\* the characters of a path segment
Chars(seg) ==
    CASE seg = "A" -> <<"A">>
      [] seg = "AB" -> <<"A", "B">>
      [] seg = "B" -> <<"B">>
      [] seg = "C" -> <<"C">>
      [] seg = "1.md" -> <<"1", ".", "m", "d">>
      [] seg = "2.md" -> <<"2", ".", "m", "d">>
      [] OTHER -> <<seg>>

\* str(path): the segments joined by '/'
RECURSIVE PathStr(_)
PathStr(path) ==
    IF path = <<>> THEN <<>>
    ELSE IF Len(path) = 1 THEN Chars(path[1])
    ELSE Chars(path[1]) \o <<"/">> \o PathStr(Tail(path))

\* str.startswith
StartsWith(str, prefix) ==
    Len(str) >= Len(prefix) /\ SubSeq(str, 1, Len(prefix)) = prefix

\* line 107: any(path.startswith(repo) for repo in config.repos)
WithinConfiguredRepo(path) ==
    \E i \in 1..Len(Repos) :
        StartsWith(PathStr(path), PathStr(RepoRoot(Repos[i])))

NotWithinRepo == "Path is not within a configured repository."
NotFound == "Document not found."

\* docs_fetch(path): the error, or the document with its images
docs_fetch(d, path) ==
    IF ~WithinConfiguredRepo(path)
    THEN [error |-> NotWithinRepo, doc |-> NoRow, images |-> <<>>]
    ELSE LET doc == get_document_by_path(d, path)
         IN  IF doc = NoRow
             THEN [error |-> NotFound, doc |-> NoRow, images |-> <<>>]
             ELSE [error |-> "none", doc |-> doc, images |-> get_images(d, doc.id)]

\* the paths a store can hold a document for: files indexed under the
\* repositories of the current list and under "AB" and "C", which an earlier
\* configuration listed
StoredPaths ==
    << <<"A", "1.md">>, <<"A", "2.md">>, <<"AB", "1.md">>, <<"B", "1.md">>,
       <<"C", "1.md">> >>

\* the paths docs_fetch is asked for
FetchPaths == Range(StoredPaths) \cup { <<"A">>, <<"AB", "2.md">>, <<>> }

RECURSIVE StoreOf(_, _, _)
StoreOf(s, chosen, k) ==
    IF k > Len(StoredPaths) THEN s
    ELSE StoreOf(IF StoredPaths[k] \in chosen
                 THEN IndexedFile(s, StoredPaths[k][1], StoredPaths[k], DocTwo, 0)
                 ELSE s,
                 chosen, k + 1)

\* the MCP tool docs_fetch is called
DocsFetch ==
    /\ \E path \in FetchPaths :
         api' = [op |-> "docs_fetch", args |-> [NoArgs EXCEPT !.path = path],
                 ret |-> docs_fetch(db, path), raised |-> FALSE,
                 had |-> NoCall.had]
    /\ UNCHANGED <<ct, sq, vec_table, vb, other, db, committed, vec, files, run, hist>>

InitFetch ==
    /\ ct = CtIdle
    /\ \E chosen \in SUBSET Range(StoredPaths) :
          LET s == StoreOf([db |-> EmptyDb, vec |-> {}, table |-> TRUE], chosen, 1)
          IN  db = s.db /\ committed = s.db /\ vec = s.vec
    /\ files = [p \in Paths |-> Absent]
    /\ run = IdleRun
    /\ hist = [runs |-> 0, edits |-> 0, failures |-> 0, interrupted |-> 0, cut |-> 0,
               last |-> "none", prev |-> "none",
               start |-> NoStart]
    /\ api = NoCall
    /\ sq = NoSearch /\ vec_table = TRUE
    /\ vb = NoBackend /\ other = IdleRun

NextFetch == DocsFetch

SpecFetch == InitFetch /\ [][NextFetch]_vars

----------------------------------------------------------------------------
(* extract_title alone: markdown_parser.py (SpecTitle) *)

MaxTitleLen == 4

\* the contents extract_title is given: every text of up to MaxTitleLen
\* characters over '#', ' ', newline and 'a', and two lines longer than the
\* cut, one of them under a heading
LongLine == [i \in 1..(TitleMax + 1) |-> "a"]

TitleTexts ==
    UNION {[1..n -> {"#", " ", "\n", "a"}] : n \in 0..MaxTitleLen}
        \cup {LongLine, <<" ">> \o LongLine \o <<" ", "\n", "a">>,
              <<"#", " ">> \o LongLine}

\* extract_title(content) is called
ExtractTitle ==
    /\ \E text \in TitleTexts :
         api' = [op |-> "extract_title", args |-> [NoArgs EXCEPT !.rows = text],
                 ret |-> extract_title(text), raised |-> FALSE,
                 had |-> NoCall.had]
    /\ UNCHANGED <<ct, sq, vec_table, vb, other, db, committed, vec, files, run, hist>>

InitTitle ==
    /\ ct = CtIdle
    /\ db = EmptyDb /\ committed = EmptyDb /\ vec = {}
    /\ files = [p \in Paths |-> Absent]
    /\ run = IdleRun
    /\ hist = [runs |-> 0, edits |-> 0, failures |-> 0, interrupted |-> 0, cut |-> 0,
               last |-> "none", prev |-> "none",
               start |-> NoStart]
    /\ api = NoCall
    /\ sq = NoSearch /\ vec_table = FALSE
    /\ vb = NoBackend /\ other = IdleRun

NextTitle == ExtractTitle

SpecTitle == InitTitle /\ [][NextTitle]_vars

----------------------------------------------------------------------------
(* Properties of the runs (checked under Spec) *)

ChunkIds(d) == {c.id : c \in d.chunks}
ImageIds(d) == {i.id : i \in d.images}
DocIds(d) == {r.id : r \in d.docs}

\* a chunk or image row without its id
ChunkFields(c) ==
    [chunk_index |-> c.chunk_index, content |-> c.content,
     start_char |-> c.start_char, end_char |-> c.end_char]

ImageFields(i) ==
    [original_path |-> i.original_path, absolute_path |-> i.absolute_path,
     alt_text |-> i.alt_text]

\* C1: under a single writer every chunk id in the vector index is the id of
\* a chunk row of the store, in every intermediate state of rebuild_index and
\* update_index (and in what an interrupted run leaves behind).
C1_NoDanglingVector == VecIds(vec) \subseteq ChunkIds(db)

\* C1 witness: a changed document is being re-indexed; its old chunk rows are
\* still stored, their vectors are gone, other documents keep theirs
C1_Witness ==
    /\ Running /\ run.pc = "insert_chunks"
    /\ ChunkIdsOf(db, run.doc_id) # {}
    /\ vec # {}

StartAgreed == VecIds(hist.start.vec) = ChunkIds(hist.start.db)

\* C2: a run that completes, having started from a store and an index that
\* agree, ends with the vector ids equal to the stored chunk ids, one vector
\* per chunk.
C2_IndexAgreesWhenDone ==
    (run.status = "done" /\ StartAgreed)
        => /\ VecIds(vec) = ChunkIds(db)
           /\ Cardinality(vec) = Cardinality(ChunkIds(db))

\* C2 witness: an update over a non-empty index that re-indexed a file and
\* removed a document
C2_Witness ==
    /\ run.status = "done" /\ run.kind = "update" /\ StartAgreed
    /\ hist.start.vec # {}
    /\ run.indexed >= 1 /\ run.removed >= 1
    /\ vec # {}

\* the files the run's scan of the configured repositories returned and that
\* can be read
ReadableScanned ==
    {p \in Paths : /\ \E i \in 1..Len(Repos) : IsRelativeTo(p, RepoRoot(Repos[i]))
                   /\ hist.start.files[p].kind = "file"}

\* C3: when rebuild_index completes, the documents are exactly the readable
\* scanned files, and every document, chunk, image and vector is one created
\* by this run: nothing of the prior state is left.
C3_RebuildReplacesAll ==
    (run.status = "done" /\ run.kind = "rebuild")
        => /\ {r.path : r \in db.docs} = ReadableScanned
           /\ \A r \in db.docs : /\ r.id > hist.start.db.seq.documents
                                 /\ r.content = hist.start.files[r.path].content
           /\ \A c \in db.chunks : c.id > hist.start.db.seq.chunks
           /\ \A i \in db.images : i.id > hist.start.db.seq.images
           /\ VecIds(vec) \subseteq ChunkIds(db)
           /\ VecIds(vec) \cap VecIds(hist.start.vec) = {}

\* C3 witness: a rebuild over a store that held documents, images and vectors,
\* one of them for a file that is gone
C3_Witness ==
    /\ run.status = "done" /\ run.kind = "rebuild"
    /\ hist.start.vec # {} /\ hist.start.db.images # {}
    /\ \E r \in hist.start.db.docs : r.path \notin ReadableScanned
    /\ db.docs # {}

\* C4: _index_file on a file whose hash equals the hash stored for its path
\* returns False and leaves the store and the vector index as they were.
C4_UnchangedFileIsNoOp ==
    (/\ Running /\ run.pc = "returned"
     /\ files[FilePath].kind = "file"
     /\ get_content_hash(run.pre.db, FilePath)
            = content_hash(files[FilePath].content))
        => /\ run.ret = FALSE
           /\ db = run.pre.db
           /\ committed = run.pre.db
           /\ vec = run.pre.vec

\* C4 witness: _index_file skipped an unchanged file that has chunks, images
\* and vectors
C4_Witness ==
    /\ Running /\ run.pc = "returned" /\ run.why = "unchanged"
    /\ LET doc == get_document_by_path(db, FilePath)
       IN  /\ ChunkIdsOf(db, doc.id) # {}
           /\ ImageIdsOf(db, doc.id) # {}
           /\ ChunkIdsOf(db, doc.id) \subseteq VecIds(vec)

\* C5: _index_file on an indexed file whose content changed keeps the
\* document's id; when it returns, the document's chunks, images and vectors
\* are those of the new content and no chunk, image or vector of the old
\* version is left.
C5_ChangedFileIsReplaced ==
    (/\ Running /\ run.pc = "returned" /\ run.ret
     /\ get_document_by_path(run.pre.db, FilePath) # NoRow)
        => LET old == get_document_by_path(run.pre.db, FilePath)
               doc == get_document_by_path(db, FilePath)
               content == files[FilePath].content
               rows == get_chunks(db, doc.id)
               imgs == get_images(db, doc.id)
           IN  /\ doc.id = old.id
               /\ doc.content = content
               /\ [i \in 1..Len(rows) |-> ChunkFields(rows[i])]
                    = ChunkData(chunk_text(content.text, ChunkSize, ChunkOverlap))
               /\ [i \in 1..Len(imgs) |-> ImageFields(imgs[i])]
                    = extract_images(content, FilePath, RepoRoot(RepoPath))
               /\ {r \in vec : r.chunk_id \in ChunkIdsOf(db, doc.id)}
                    = {[chunk_id |-> c.id, embedding |-> encode(c.content)] :
                          c \in Range(rows)}
               /\ ChunkIdsOf(run.pre.db, old.id) \cap ChunkIds(db) = {}
               /\ ChunkIdsOf(run.pre.db, old.id) \cap VecIds(vec) = {}
               /\ ImageIdsOf(run.pre.db, old.id) \cap ImageIds(db) = {}

\* C5 witness: a document that had chunks, images and vectors was re-indexed
\* from changed content that again has chunks and images
C5_Witness ==
    /\ Running /\ run.pc = "returned" /\ run.ret
    /\ LET old == get_document_by_path(run.pre.db, FilePath)
       IN  /\ old # NoRow
           /\ ChunkIdsOf(run.pre.db, old.id) # {}
           /\ ChunkIdsOf(run.pre.db, old.id) \subseteq VecIds(run.pre.vec)
           /\ ImageIdsOf(run.pre.db, old.id) # {}
           /\ ChunkIdsOf(db, old.id) # {}
           /\ ImageIdsOf(db, old.id) # {}

\* the documents stored at the start of the run whose file is gone from disk
Vanished ==
    {r \in hist.start.db.docs : hist.start.files[r.path].kind = "absent"}

\* every readable file on disk is stored, with the content it has on disk
StoreUpToDate ==
    \A p \in Paths :
        hist.start.files[p].kind = "file"
            => get_content_hash(hist.start.db, p)
                   = content_hash(hist.start.files[p].content)

\* C6: once the repositories are indexed, deleting one file and running
\* update_index removes that file's document with its chunks, images and
\* vectors, reports removed = 1, lowers the repository's document count by
\* one and leaves the rows and vectors of every other document unchanged.
C6_UpdateRemovesDeletedFile ==
    (/\ run.status = "done" /\ run.kind = "update"
     /\ Cardinality(Vanished) = 1
     /\ StoreUpToDate)
        => LET S == hist.start.db
               gone == CHOOSE r \in Vanished : TRUE
           IN  /\ run.removed = 1
               /\ run.indexed = 0
               /\ db.docs = S.docs \ {gone}
               /\ db.chunks = {c \in S.chunks : c.document_id # gone.id}
               /\ db.images = {i \in S.images : i.document_id # gone.id}
               /\ vec = {r \in hist.start.vec :
                            r.chunk_id \notin ChunkIdsOf(S, gone.id)}
               /\ Cardinality({r \in db.docs : r.repo = gone.repo})
                    = Cardinality({r \in S.docs : r.repo = gone.repo}) - 1

\* C6 witness: an update that removed the one vanished document of a
\* repository holding another document, both with chunks and vectors
C6_Witness ==
    /\ run.status = "done" /\ run.kind = "update"
    /\ Cardinality(Vanished) = 1 /\ StoreUpToDate
    /\ run.removed = 1
    /\ LET gone == CHOOSE r \in Vanished : TRUE
       IN  /\ ChunkIdsOf(hist.start.db, gone.id) # {}
           /\ ChunkIdsOf(hist.start.db, gone.id) \subseteq VecIds(hist.start.vec)
           /\ ImageIdsOf(hist.start.db, gone.id) # {}
           /\ \E r \in db.docs : r.repo = gone.repo /\ ChunkIdsOf(db, r.id) # {}
           /\ \E r \in db.docs : r.repo # gone.repo /\ ChunkIdsOf(db, r.id) # {}

\* the link is an http, https or data URL, in whatever letter case the scheme
\* is written
IsUrlAnyCase(img_path) ==
    /\ Len(img_path) > 0
    /\ img_path[1] \in {"http:", "Http:", "HTTP:", "https:", "Https:", "HTTPS:",
                        "data:", "Data:", "DATA:"}

\* C24: every reference extract_images returns for a repository root, and so
\* every image row _index_file stores, has its resolved absolute path inside
\* the root; a link that is an http://, https:// or data: URL, in any letter
\* case, or that resolves outside the root is never stored.
C24_ImagesStayInsideRepo ==
    \A i \in db.images :
        LET doc == get_document(db, i.document_id)
        IN  /\ IsRelativeTo(i.absolute_path, Resolve(<<>>, RepoRoot(doc.repo)))
            /\ ~IsUrlAnyCase(i.original_path)

\* the steps of _index_file after the read of the file: stat and upsert,
\* deletion of old vectors, chunk storage, embedding and vector insertion,
\* image storage
FileSteps == {"upsert", "old_vectors", "insert_chunks", "add_vectors", "insert_images"}

\* C32: when _index_file has indexed a file, the stored chunks of its
\* document, ordered by chunk_index, carry the indexes 0..n-1, start at
\* non-decreasing offsets, each hold document.content[start_char:end_char]
\* and together cover every offset of the content, and each has one vector;
\* a file with empty content leaves a document with no chunk and no vector,
\* and the call still returns True and is counted as indexed.
C32_StoredChunksCoverDocument ==
    /\ [](( /\ Running /\ run.pc = "returned" /\ run.why = "indexed")
            => LET doc == get_document_by_path(db, FilePath)
                   cs == get_chunks(db, doc.id)
                   text == doc.content.text
               IN  /\ doc # NoRow
                   /\ run.ret
                   /\ \A i \in 1..Len(cs) :
                         /\ cs[i].chunk_index = i - 1
                         /\ cs[i].content
                               = Slice(text, cs[i].start_char, cs[i].end_char)
                         /\ Cardinality({r \in vec : r.chunk_id = cs[i].id}) = 1
                   /\ \A i \in 1..(Len(cs) - 1) :
                         cs[i + 1].start_char >= cs[i].start_char
                   /\ \A o \in 0..(Len(text) - 1) :
                         \E i \in 1..Len(cs) :
                            cs[i].start_char <= o /\ o < cs[i].end_char
                   /\ text = <<>> => cs = <<>>)
    /\ [][(/\ Running /\ run.pc = "returned" /\ run.why = "indexed"
           /\ run'.status = "running")
            => run'.indexed = run.indexed + 1]_vars

\* C32 witness: a file with empty content has just been indexed, beside a
\* stored document of several chunks
C32_Witness ==
    /\ Running /\ run.pc = "returned" /\ run.why = "indexed"
    /\ LET doc == get_document_by_path(db, FilePath)
       IN  /\ doc # NoRow
           /\ doc.content.text = <<>>
           /\ get_chunks(db, doc.id) = <<>>
    /\ \E d \in db.docs : Len(get_chunks(db, d.id)) >= 2

\* C20: an error while one file is processed (stat, parsing, chunk storage,
\* embedding or vector insertion fails) does not abort rebuild_index or
\* update_index: the run is never ended by it, the remaining files are
\* processed and the counts are returned.
C20_FileErrorDoesNotAbort ==
    run.status = "aborted" => run.pc \notin FileSteps

\* the document, chunk, image and vector entries stored for a path
StoredFor(d, v, p) ==
    LET doc == get_document_by_path(d, p)
    IN  [doc |-> doc,
         chunks |-> {c \in d.chunks : c.document_id = doc.id},
         images |-> {i \in d.images : i.document_id = doc.id},
         vectors |-> {r \in v : r.chunk_id \in ChunkIdsOf(d, doc.id)}]

\* C28: if reading a file fails during update_index, _index_file returns
\* False with the store and the index untouched; when the run completes the
\* file is counted in total_files and not in indexed, what was stored for
\* its path is exactly as it was, and it is not removed: removed counts the
\* vanished files only.
C28_UnreadableFileKeepsItsRows ==
    /\ (Running /\ run.pc = "returned" /\ files[FilePath].kind = "unreadable")
         => /\ run.ret = FALSE
            /\ db = run.pre.db /\ vec = run.pre.vec
    /\ (run.status = "done" /\ run.kind = "update")
         => /\ \A p \in Paths :
                  hist.start.files[p].kind = "unreadable"
                    => StoredFor(db, vec, p)
                         = StoredFor(hist.start.db, hist.start.vec, p)
            /\ run.total_files = Cardinality({p \in Paths : hist.start.files[p].kind # "absent"})
            /\ run.indexed
                 = Cardinality({p \in Paths :
                       /\ hist.start.files[p].kind = "file"
                       /\ get_content_hash(hist.start.db, p)
                            # content_hash(hist.start.files[p].content)})
            /\ run.removed = Cardinality(Vanished)

\* C28 witness: an update completed over a file that cannot be read any more
\* and that is stored with chunks, images and vectors; another file was
\* re-indexed by the same run
C28_Witness ==
    /\ run.status = "done" /\ run.kind = "update"
    /\ run.indexed >= 1 /\ run.total_files >= 2 /\ run.removed = 0
    /\ \E p \in Paths :
          /\ hist.start.files[p].kind = "unreadable"
          /\ LET st == StoredFor(db, vec, p)
             IN  /\ st.doc # NoRow
                 /\ st.chunks # {} /\ st.images # {} /\ st.vectors # {}

\* the document an interrupted deletion pass left in the store, its vectors
\* already deleted, as the run in progress found it; NoRow if there is none
Interrupted == get_document(hist.start.db, hist.interrupted)

\* C25 (checked under SpecIndexed): if the deletion pass of update_index is
\* interrupted after the vectors of a vanished file were deleted and before
\* its document row was, the next update_index that completes with the file
\* still absent deletes that document with its chunks and images and counts
\* it in removed; no vector of its chunks is left, and the vector index
\* agrees with the store again if it agreed for all other documents.
C25_InterruptedRemovalIsHealed ==
    (/\ run.status = "done" /\ run.kind = "update"
     /\ Interrupted # NoRow
     /\ hist.start.files[Interrupted.path].kind = "absent")
        => LET S == hist.start.db
               gone == Interrupted
           IN  /\ gone \in Vanished
               /\ run.removed = Cardinality(Vanished)
               /\ gone.id \notin DocIds(db)
               /\ \A c \in db.chunks : c.document_id # gone.id
               /\ \A i \in db.images : i.document_id # gone.id
               /\ ChunkIdsOf(S, gone.id) \cap VecIds(vec) = {}
               /\ VecIds(hist.start.vec) = ChunkIds(S) \ ChunkIdsOf(S, gone.id)
                    => VecIds(vec) = ChunkIds(db)

\* C25 witness: an update completed after an interrupted one; the document
\* left behind had chunks and images and no vectors, another document had
\* its vectors, and the run removed the document
C25_Witness ==
    /\ run.status = "done" /\ run.kind = "update"
    /\ Interrupted # NoRow
    /\ hist.start.files[Interrupted.path].kind = "absent"
    /\ ChunkIdsOf(hist.start.db, Interrupted.id) # {}
    /\ ChunkIdsOf(hist.start.db, Interrupted.id) \cap VecIds(hist.start.vec) = {}
    /\ ImageIdsOf(hist.start.db, Interrupted.id) # {}
    /\ hist.start.vec # {}
    /\ run.removed = 1
    /\ vec # {}

\* the document whose _index_file was interrupted between the upsert of its
\* row and the writing of its vectors, as the next run found it
Cut == get_document(hist.start.db, hist.cut)

\* C33: if a run is interrupted inside _index_file after the document row
\* was upserted and before its vectors were written, the next update_index
\* that completes over the unchanged file leaves every chunk of that
\* document with a vector.
C33_InterruptedIndexingIsHealed ==
    (/\ run.status = "done" /\ run.kind = "update"
     /\ Cut # NoRow
     /\ hist.start.files[Cut.path].kind = "file"
     /\ content_hash(hist.start.files[Cut.path].content) = Cut.content_hash)
        => ChunkIdsOf(db, Cut.id) \subseteq VecIds(vec)

\* what a store and an index hold, ids left out: per document its path,
\* label, title and content, its chunks in chunk_index order each with the
\* vectors stored for it, and its images in id order
ResultOf(d, v) ==
    {[path |-> doc.path, repo |-> doc.repo, title |-> doc.title,
      content |-> doc.content,
      chunks |-> LET cs == get_chunks(d, doc.id)
                 IN  [i \in 1..Len(cs) |->
                        [row |-> ChunkFields(cs[i]),
                         vectors |-> {r.embedding :
                                        r \in {x \in v : x.chunk_id = cs[i].id}}]],
      images |-> LET is == get_images(d, doc.id)
                 IN  [i \in 1..Len(is) |-> ImageFields(is[i])]] : doc \in d.docs}

\* the loop of rebuild_index over config.repos and the scanned files, from
\* an empty store: every readable file goes through _index_file in turn
RECURSIVE IndexFiles(_, _, _, _, _)
IndexFiles(s, fs, repo, md_files, k) ==
    IF k > Len(md_files) THEN s
    ELSE IndexFiles(IF fs[md_files[k]].kind = "file"
                    THEN IndexedFile(s, repo, md_files[k],
                                     fs[md_files[k]].content, 0)
                    ELSE s,
                    fs, repo, md_files, k + 1)

RECURSIVE IndexRepos(_, _, _)
IndexRepos(s, fs, i) ==
    IF i > Len(Repos) THEN s
    ELSE IndexRepos(IndexFiles(s, fs, Repos[i], scan_repo(fs, Repos[i]), 1),
                    fs, i + 1)

RebuiltFrom(fs) == IndexRepos([db |-> EmptyDb, vec |-> {}, table |-> TRUE], fs, 1)

RECURSIVE CountFiles(_, _, _)
CountFiles(fs, kinds, i) ==
    IF i > Len(Repos) THEN 0
    ELSE Len(SelectSeq(scan_repo(fs, Repos[i]), LAMBDA p : fs[p].kind \in kinds))
            + CountFiles(fs, kinds, i + 1)

StartedEmpty ==
    /\ hist.start.db.docs = {} /\ hist.start.db.chunks = {}
    /\ hist.start.db.images = {} /\ hist.start.vec = {}

\* C36: from an empty store and an empty vector index, update_index and
\* rebuild_index over the same files give the same result: the documents,
\* chunks, images and vectors that indexing every readable scanned file in
\* turn gives, one vector per chunk, and the same total_files and indexed.
C36_UpdateFromEmptyIsRebuild ==
    (run.status = "done" /\ StartedEmpty)
        => LET ref == RebuiltFrom(hist.start.files)
           IN  /\ ResultOf(db, vec) = ResultOf(ref.db, ref.vec)
               /\ Cardinality(vec) = Cardinality(db.chunks)
               /\ VecIds(vec) = ChunkIds(db)
               /\ run.total_files
                     = CountFiles(hist.start.files, {"file", "unreadable"}, 1)
               /\ run.indexed = CountFiles(hist.start.files, {"file"}, 1)
               /\ run.removed = 0

\* C36 witness: an update_index from an empty store completed over files of
\* two repositories, one of them unreadable, and stored several chunks and
\* an image
C36_Witness ==
    /\ run.status = "done" /\ run.kind = "update" /\ StartedEmpty
    /\ run.indexed >= 2 /\ run.total_files > run.indexed
    /\ \E a, b \in db.docs : a.repo # b.repo
    /\ Cardinality(db.chunks) >= 4
    /\ db.images # {}

\* C38 (checked under SpecIndexed): update_index is idempotent. An
\* update_index that completes after a completed update_index, no file
\* having changed in between, returns indexed = 0 and removed = 0 and leaves
\* every document, chunk, image and vector as it was.
C38_UpdateIsIdempotent ==
    (run.status = "done" /\ run.kind = "update" /\ hist.prev = "update")
        => /\ run.indexed = 0
           /\ run.removed = 0
           /\ db = hist.start.db
           /\ vec = hist.start.vec

\* C38 witness: the second of two updates over the same files has completed;
\* the first had indexed a new file and removed the document of a vanished
\* one
C38_Witness ==
    /\ run.status = "done" /\ run.kind = "update" /\ hist.prev = "update"
    /\ db.seq.documents >= 3
    /\ Cardinality(db.docs) < db.seq.documents
    /\ db.docs # {} /\ vec # {}
    /\ run.total_files >= 2

\* C34 (checked under SpecRespelled): when update_index has completed, every
\* document of the store has a path that the scan of some configured
\* repository returned, also when documents were stored under a label that
\* is no longer in the configured list.
C34_UpdateLeavesOnlyScannedPaths ==
    (run.status = "done" /\ run.kind = "update")
        => \A d \in db.docs :
              \E i \in 1..Len(Repos) :
                 d.path \in Range(scan_repo(hist.start.files, Repos[i]))

----------------------------------------------------------------------------
(* Properties of the Database API (checked under SpecDb) *)

DocVersion(n) == CHOOSE v \in DocVersions : v.now = n

\* C7: after delete_document(id), get_document(id) is None, no chunk and no
\* image row carries that document_id, get_chunk on each former chunk id is
\* None, and the rows of the other documents are untouched.
C7_DeleteCascades ==
    [][api'.op = "delete_document"
        => LET id == api'.args.doc_id
           IN  /\ get_document(db', id) = NoRow
               /\ \A c \in db'.chunks : c.document_id # id
               /\ \A i \in db'.images : i.document_id # id
               /\ \A cid \in ChunkIdsOf(db, id) : get_chunk(db', cid) = NoRow
               /\ db'.docs = {r \in db.docs : r.id # id}
               /\ db'.chunks = {c \in db.chunks : c.document_id # id}
               /\ db'.images = {i \in db.images : i.document_id # id}]_vars

\* C7 witness: a document with chunks and images was deleted while another
\* document holds chunks and images
C7_Witness ==
    /\ api.op = "delete_document"
    /\ api.had.doc # NoRow
    /\ api.had.chunks # {} /\ api.had.images # {}
    /\ \E r \in db.docs : ChunkIdsOf(db, r.id) # {} /\ ImageIdsOf(db, r.id) # {}

UniquePaths(d) == \A r1, r2 \in d.docs : r1.path = r2.path => r1 = r2

\* C8: no two document rows ever share a path; upsert_document on a stored
\* path returns the id the path already has and overwrites repo, title,
\* content, content hash and both timestamps; on a new path it adds exactly
\* one row, under an id no row has.
C8_UpsertKeyedByPath ==
    [][/\ UniquePaths(db') /\ UniquePaths(committed')
       /\ api'.op = "upsert_document"
            => LET path == api'.args.path
                   v == DocVersion(api'.args.version)
                   old == DocsByPath(db, path)
                   row == [id |-> api'.ret, repo |-> v.repo, path |-> path,
                           title |-> v.title, content |-> v.content,
                           content_hash |-> content_hash(v.content),
                           last_modified |-> v.last_modified,
                           indexed_at |-> v.now]
               IN  /\ old # {} => /\ \A o \in old : api'.ret = o.id
                                  /\ db'.docs = (db.docs \ old) \cup {row}
                   /\ old = {} => /\ api'.ret \notin DocIds(db)
                                  /\ db'.docs = db.docs \cup {row}
                                  /\ Cardinality(db'.docs)
                                        = Cardinality(db.docs) + 1]_vars

\* C8 witness: after a delete, upsert_document on a stored path returned the
\* path's id and replaced the row's content
C8_Witness ==
    /\ api.op = "upsert_document"
    /\ api.had.doc # NoRow
    /\ api.ret = api.had.doc.id
    /\ get_document(db, api.ret).content # api.had.doc.content
    /\ get_document(db, api.ret).repo # api.had.doc.repo
    /\ db.seq.documents > Cardinality(db.docs)

\* the rows of a whole list handed to insert_chunks / insert_images
WholeChunkSets ==
    {{t : t \in Range(l)} : l \in {x \in ChunkLists : \A t \in Range(x) : t.content # None}}

WholeImageSets ==
    {{t : t \in Range(l)} :
        l \in {x \in ImageLists : \A t \in Range(x) : t.absolute_path # None}}

\* C35: chunk ids are never reused within a database. Every id a successful
\* insert_chunks returns is greater than every chunk id the database ever
\* held or handed out before (the AUTOINCREMENT counter, which no deletion,
\* replacement or rebuild lowers), the ids of one call grow, and a chunk id
\* that is in the database before and after a call names the same row, so a
\* stale id never resolves to a chunk of another document or version.
C35_ChunkIdsNeverReused ==
    /\ [](\A c \in committed.chunks : c.id <= committed.seq.chunks)
    /\ [][/\ committed'.seq.chunks >= committed.seq.chunks
          /\ \A c \in committed.chunks : \A n \in committed'.chunks :
                c.id = n.id => c = n
          /\ (api'.op = "insert_chunks" /\ ~api'.raised)
                => /\ \A k \in 1..Len(api'.ret) :
                        /\ api'.ret[k] > committed.seq.chunks
                        /\ api'.ret[k] > db.seq.chunks
                        /\ api'.ret[k] <= committed'.seq.chunks
                   /\ \A k \in 1..(Len(api'.ret) - 1) :
                        api'.ret[k + 1] > api'.ret[k]]_vars

\* C35 witness: insert_chunks has returned ids while an id below them, given
\* out before, is no longer in the database
C35_Witness ==
    /\ api.op = "insert_chunks" /\ ~api.raised
    /\ api.ret # <<>>
    /\ \E i \in 1..(api.ret[1] - 1) : i \notin ChunkIds(committed)
    /\ \E d \in committed.docs : \E c \in committed.chunks :
          c.document_id # d.id

\* C9: insert_chunks and insert_images replace atomically: after a call that
\* raised, the connection still shows the document's previous rows, and what
\* is committed for a document is never part of a list.
C9_AtomicReplace ==
    /\ (api.raised /\ api.op = "insert_chunks")
          => ChunkIdsOf(db, api.args.doc_id) = api.had.chunks
    /\ (api.raised /\ api.op = "insert_images")
          => ImageIdsOf(db, api.args.doc_id) = api.had.images
    /\ \A r \in committed.docs :
          /\ {ChunkFields(c) : c \in {x \in committed.chunks : x.document_id = r.id}}
                \in WholeChunkSets
          /\ {ImageFields(i) : i \in {x \in committed.images : x.document_id = r.id}}
                \in WholeImageSets

----------------------------------------------------------------------------
(* Properties of chunk_text (checked under SpecChunk) *)

\* the offsets covered by a sequence of chunks
Covered(chunks) == UNION {c.start..(c.end - 1) : c \in Range(chunks)}

\* C10: for every non-empty text, chunk_size >= 1 and chunk_overlap >= 0 the
\* union of the returned [start, end) ranges is exactly [0, len(text)): every
\* offset lies in some chunk and no range reaches outside the text.
C10_ChunksCoverText ==
    (ct.pc = "returned" /\ ct.text # <<>>)
        => Covered(ct.chunks) = 0..(Len(ct.text) - 1)

\* C10 witness: a call that returned several overlapping chunks, the first of
\* them cut short at a natural break
C10_Witness ==
    /\ ct.pc = "returned"
    /\ Len(ct.chunks) >= 3
    /\ ct.overlap > 0
    /\ ct.chunks[1].end - ct.chunks[1].start < ct.size

\* C11: every returned tuple is well formed: 0 <= start < end <= len(text),
\* its content is not empty and is text[start:end], the extended last chunk
\* included.
C11_ChunksWellFormed ==
    ct.pc = "returned"
        => \A i \in 1..Len(ct.chunks) :
              LET c == ct.chunks[i]
              IN  /\ 0 <= c.start /\ c.start < c.end /\ c.end <= Len(ct.text)
                  /\ c.content # <<>>
                  /\ c.content = Slice(ct.text, c.start, c.end)

\* C11 witness: a call returned several chunks, the last of them extended
\* beyond its window to take in a short tail
C11_Witness ==
    /\ ct.pc = "returned"
    /\ Len(ct.chunks) >= 2
    /\ LET last == ct.chunks[Len(ct.chunks)]
       IN  /\ last.end = Len(ct.text)
           /\ ChunkEnd(ct.text, last.start, ct.size) < last.end

\* C12: with 0 < chunk_overlap < chunk_size and more than one chunk returned,
\* every chunk starts strictly before the end of the chunk before it.
C12_ConsecutiveChunksShare ==
    (/\ ct.pc = "returned" /\ Len(ct.chunks) > 1
     /\ 0 < ct.overlap /\ ct.overlap < ct.size)
        => \A i \in 1..(Len(ct.chunks) - 1) :
              ct.chunks[i + 1].start < ct.chunks[i].end

\* C13: chunk_text terminates for every text, chunk_size >= 1 and
\* chunk_overlap >= 0: the cursor grows at every iteration of the loop, the
\* loop runs at most len(text) times, and the call returns.
C13_ChunkTextTerminates ==
    /\ [](ct.iters <= Len(ct.text))
    /\ [][ct.pc = "loop" => ct'.start > ct.start]_vars
    /\ <>(ct.pc = "returned")

\* C13 witness: a call with chunk_overlap >= chunk_size returned after as
\* many iterations as the text has characters
C13_Witness ==
    /\ ct.pc = "returned"
    /\ ct.overlap >= ct.size
    /\ ct.iters >= 3
    /\ ct.iters = Len(ct.text)

\* C14: with 0 <= chunk_overlap < chunk_size no returned chunk is longer than
\* chunk_size characters.
C14_ChunkSizeIsMaximum ==
    (ct.pc = "returned" /\ ct.overlap < ct.size)
        => \A i \in 1..Len(ct.chunks) :
              ct.chunks[i].end - ct.chunks[i].start <= ct.size

\* C15: the empty text gives the empty list; a text of 1..chunk_size
\* characters gives the one chunk (text, 0, len(text)), whatever the overlap.
C15_ShortTextIsOneChunk ==
    ct.pc = "returned"
        => /\ ct.text = <<>> => ct.chunks = <<>>
           /\ (ct.text # <<>> /\ Len(ct.text) <= ct.size)
                 => ct.chunks = << [content |-> ct.text, start |-> 0,
                                    end |-> Len(ct.text)] >>

\* C15 witness: a text of exactly chunk_size characters came back as one
\* chunk under an overlap larger than the chunk size
C15_Witness ==
    /\ ct.pc = "returned"
    /\ Len(ct.text) = ct.size
    /\ ct.overlap > ct.size
    /\ Len(ct.chunks) = 1

\* the offsets after start + size \div 2 at which sub occurs inside the
\* window [start, start + size)
LateOccurrences(text, sub, start, size) ==
    {i \in (start + (size \div 2) + 1)..(start + size - Len(sub)) :
        \A k \in 1..Len(sub) : text[i + k] = sub[k]}

\* the end the chunk at start is to have: after the last late paragraph
\* break, else after the latest late sentence separator of any kind, else
\* at the end of the window
PickedEnd(text, start, size) ==
    LET para == LateOccurrences(text, <<"\n", "\n">>, start, size)
        sent == UNION {LateOccurrences(text, SentenceSeps[k], start, size) :
                          k \in 1..Len(SentenceSeps)}
    IN  IF para # {} THEN Max(para) + 2
        ELSE IF sent # {} THEN Max(sent) + 2
        ELSE start + size

\* C29: when the window [start, start + chunk_size) of a chunk ends before
\* the end of the text, the chunk ends just after the last double newline
\* that begins after start + chunk_size // 2 inside the window; if there is
\* none, just after the latest occurrence, beginning after that offset inside
\* the window, of any of the separators '. ', '.\n', '! ', '? '; if there is
\* none either, at start + chunk_size. (The last chunk of a finished call
\* may have been extended to the end of the text and is left out.)
C29_ChunkEndsAtLatestBreak ==
    \A k \in 1..Len(ct.chunks) :
        (/\ ct.chunks[k].start + ct.size < Len(ct.text)
         /\ k < Len(ct.chunks) \/ ct.pc = "loop")
            => ct.chunks[k].end = PickedEnd(ct.text, ct.chunks[k].start, ct.size)

\* C31: with 0 < chunk_overlap < chunk_size the returned chunks advance in
\* both offsets: each chunk starts after the start and ends after the end of
\* the chunk before it, so none lies inside its predecessor.
C31_ChunksAdvanceInBothOffsets ==
    (/\ ct.pc = "returned"
     /\ 0 < ct.overlap /\ ct.overlap < ct.size)
        => \A i \in 1..(Len(ct.chunks) - 1) :
              /\ ct.chunks[i + 1].start > ct.chunks[i].start
              /\ ct.chunks[i + 1].end > ct.chunks[i].end

\* C30: chunk_text never emits a chunk that is only a tail shorter than
\* chunk_overlap: every chunk after the first starts at least chunk_overlap
\* characters before the end of the text, and whenever the cursor, having
\* advanced, is less than chunk_overlap characters (and at least one) from
\* the end, the call returns with no further chunk and with the last chunk
\* extended to len(text).
C30_NoShortTailChunk ==
    /\ [](\A k \in 2..Len(ct.chunks) :
             Len(ct.text) - ct.chunks[k].start >= ct.overlap)
    /\ [][(/\ ct.pc = "loop"
           /\ ct'.start < Len(ct.text)
           /\ Len(ct.text) - ct'.start < ct.overlap)
            => LET last == ct'.chunks[Len(ct'.chunks)]
               IN  /\ ct'.pc = "returned"
                   /\ Len(ct'.chunks) = Len(ct.chunks) + 1
                   /\ last.start = ct.start
                   /\ last.end = Len(ct.text)
                   /\ last.content = SliceFrom(ct.text, ct.start)]_vars

\* C30 witness: a call returned with the cursor inside the text, less than
\* chunk_overlap before its end, after two chunks or more
C30_Witness ==
    /\ ct.pc = "returned"
    /\ ct.start < Len(ct.text)
    /\ Len(ct.text) - ct.start < ct.overlap
    /\ Len(ct.chunks) >= 2
    /\ ct.chunks[Len(ct.chunks)].end = Len(ct.text)

----------------------------------------------------------------------------
(* Properties of semantic_search (checked under SpecSearch) *)

\* the position of a chunk id among the hits
HitIndex(chunk_id) == CHOOSE i \in 1..Len(sq.hits) : sq.hits[i].chunk_id = chunk_id

\* C16: the results come in the order of the hits of the vector index, none
\* has a distance above the active threshold while a hit at the threshold is
\* not dropped for its distance; so the distances do not decrease, and there
\* are at most `limit` results.
C16_ResultsOrderedWithinThreshold ==
    sq.pc = "returned"
        => LET res == sq.results
           IN  /\ \A i \in 1..Len(res) :
                     /\ [chunk_id |-> res[i].chunk_id, distance |-> res[i].distance]
                            \in Range(sq.hits)
                     /\ res[i].distance <= sq.threshold.value
               /\ \A i, j \in 1..Len(res) :
                     i < j => /\ HitIndex(res[i].chunk_id) < HitIndex(res[j].chunk_id)
                              /\ res[i].distance <= res[j].distance
               /\ \A i \in 1..Len(sq.skipped) :
                     sq.skipped[i].why = "threshold"
                        => sq.skipped[i].hit.distance > sq.threshold.value
               /\ Len(res) <= sq.limit

\* C16 witness: a search cut off by its limit returned results at different
\* distances, one of them exactly at the threshold, and dropped a farther hit
C16_Witness ==
    /\ sq.pc = "returned"
    /\ Len(sq.hits) = sq.limit /\ sq.limit < Cardinality(hist.start.vec)
    /\ Len(sq.results) >= 2
    /\ sq.results[1].distance < sq.results[Len(sq.results)].distance
    /\ sq.results[Len(sq.results)].distance = sq.threshold.value
    /\ \E i \in 1..Len(sq.skipped) : sq.skipped[i].why = "threshold"

\* C17: a hit whose chunk row or whose chunk's document row is missing is
\* left out and nothing is raised; every other hit within the threshold is
\* returned with the chunk id, the document's id, path, title and repo, the
\* chunk text and the hit's distance.
C17_MissingRowsAreSkipped ==
    /\ sq.pc = "raised" => sq.hits = <<>>
    /\ sq.pc = "returned"
         => LET S == hist.start.db
            IN  /\ Len(sq.results) + Len(sq.skipped) = Len(sq.hits)
                /\ \A i \in 1..Len(sq.skipped) :
                      LET k == sq.skipped[i]
                      IN  /\ k.why = "chunk" => get_chunk(db, k.hit.chunk_id) = NoRow
                          /\ k.why = "document"
                                => get_document(db,
                                      get_chunk(S, k.hit.chunk_id).document_id) = NoRow
                /\ \A i \in 1..Len(sq.hits) :
                      LET h == sq.hits[i]
                          c == get_chunk(db, h.chunk_id)
                      IN  (/\ h.distance <= sq.threshold.value
                           /\ c # NoRow
                           /\ get_document(db, c.document_id) # NoRow)
                             => \E j \in 1..Len(sq.results) :
                                   sq.results[j].chunk_id = h.chunk_id
                /\ \A j \in 1..Len(sq.results) :
                      LET r == sq.results[j]
                          c == get_chunk(S, r.chunk_id)
                          d == get_document(S, c.document_id)
                      IN  /\ c # NoRow /\ d # NoRow
                          /\ r.distance = sq.hits[HitIndex(r.chunk_id)].distance
                          /\ r.document_id = d.id /\ r.document_path = d.path
                          /\ r.document_title = d.title /\ r.repo = d.repo
                          /\ r.chunk_content = c.content
                          /\ r.chunk_index = c.chunk_index

\* C17 witness: one search returned a result, left out a hit whose chunk row
\* was gone and left out a hit whose document row was gone
C17_Witness ==
    /\ sq.pc = "returned"
    /\ sq.results # <<>>
    /\ \E i \in 1..Len(sq.skipped) : sq.skipped[i].why = "chunk"
    /\ \E i \in 1..Len(sq.skipped) : sq.skipped[i].why = "document"

\* C18: without a distance_threshold argument the configured default is
\* applied and the search goes on normally; an explicit threshold, 0
\* included, is the one applied.
C18_DefaultThresholdApplies ==
    sq.pc # "idle"
        => IF sq.distance_threshold.given
           THEN /\ sq.error # "AttributeError"
                /\ sq.threshold = sq.distance_threshold
           ELSE /\ sq.error # "AttributeError"
                /\ sq.threshold.given

\* the search had nothing to return: no index, an empty index, or no hit
\* that passed the threshold and hydration
NothingToReturn ==
    \/ ~vec_table
    \/ hist.start.vec = {}
    \/ sq.pc = "returned" /\ Len(sq.skipped) = Len(sq.hits)

\* C19: a search with nothing to return (the vector index empty or never
\* built, every hit above the threshold or not hydrated) raises nothing and
\* returns the empty list.
C19_NothingToReturnIsEmptyList ==
    (/\ sq.pc \in {"returned", "raised"}
     /\ sq.distance_threshold.given
     /\ NothingToReturn)
        => /\ sq.pc = "returned"
           /\ sq.results = <<>>

\* C26 (checked under SpecSearchRun): a semantic_search interleaved step by
\* step with a running update_index or rebuild_index builds a result only
\* from a chunk row and a document row that are in the store when it reads
\* them; a hit whose chunk or document is gone by then is dropped, and the
\* search does not raise because of it.
C26_SearchBesideIndexer ==
    /\ [][sq.pc = "hit"
            => LET hit == sq.hits[sq.i]
                   chunk == get_chunk(db, hit.chunk_id)
               IN  /\ sq'.pc # "raised"
                   /\ sq'.pc = "document"
                        => chunk \in db.chunks /\ sq'.chunk = chunk
                   /\ chunk = NoRow
                        => sq' = sq \/ (/\ sq'.results = sq.results
                                        /\ Len(sq'.skipped) = Len(sq.skipped) + 1)]_vars
    /\ [][sq.pc = "document"
            => LET doc == get_document(db, sq.chunk.document_id)
               IN  /\ sq'.pc # "raised"
                   /\ Len(sq'.results) > Len(sq.results)
                        => /\ doc \in db.docs
                           /\ sq'.results = Append(sq.results,
                                  SearchResult(sq.hits[sq.i], sq.chunk, doc))
                   /\ doc = NoRow
                        => sq' = sq \/ (/\ sq'.results = sq.results
                                        /\ Len(sq'.skipped) = Len(sq.skipped) + 1)]_vars

\* C26 witness: a search that returned next to an update_index in progress:
\* it dropped a hit whose chunk had been replaced after the vector query and
\* returned another hit
C26_Witness ==
    /\ sq.pc = "returned"
    /\ run.kind = "update" /\ Running
    /\ \E k \in 1..Len(sq.skipped) :
          /\ sq.skipped[k].why = "chunk"
          /\ sq.skipped[k].hit.chunk_id \in ChunkIds(hist.start.db)
    /\ sq.results # <<>>

\* both runs have ended and the second began after the first had ended
Serialized ==
    /\ hist.runs = MaxRuns
    /\ run.status = "done" /\ other.status = "idle"

\* C27 (checked under SpecTwo): two interleaved update_index / rebuild_index
\* runs on one database are not safe. Run one after the other, the two runs
\* end with the vector ids equal to the stored chunk ids and the store
\* holding the files on disk; an interleaving of two runs that both process
\* the same changed file ends with a vector whose chunk id is not in the
\* store (the witness), which no serialized execution produces.
C27_SerializedRunsAgree ==
    Serialized
        => /\ VecIds(vec) = ChunkIds(db)
           /\ Cardinality(vec) = Cardinality(ChunkIds(db))
           /\ \A p \in Paths :
                 IF files[p].kind = "file"
                 THEN get_content_hash(db, p) = content_hash(files[p].content)
                 ELSE get_document_by_path(db, p) = NoRow

\* C27 witness: both interleaved runs re-indexed the changed file and both
\* completed; the index holds a vector for a chunk id that is not stored
C27_Witness ==
    /\ run.status = "done" /\ other.status = "done"
    /\ run.kind = "update" /\ other.kind = "update"
    /\ run.indexed = 1 /\ other.indexed = 1
    /\ \E r \in vec : r.chunk_id \notin ChunkIds(db)

----------------------------------------------------------------------------
(* Properties of the vector backends (checked under SpecVector) *)

\* the configured name, compared without regard to letter case
Configured ==
    IF Lower(vb.vector_backend) = <<"v", "e", "c">> THEN "vec"
    ELSE IF Lower(vb.vector_backend) = <<"v", "s", "s">> THEN "vss" ELSE "none"

\* C21: get_vector_backend, comparing the configured name case-insensitively,
\* returns the configured backend when its runtime is available, the other
\* backend when only the configured one is unavailable, fails only when both
\* are unavailable, and raises ValueError for any other name without
\* constructing a backend.
C21_BackendSelection ==
    vb.last.op = "get_vector_backend"
        => LET alt == IF Configured = "vec" THEN "vss" ELSE "vec"
           IN  /\ Configured = "none"
                    => /\ vb.last.raised = "ValueError"
                       /\ vb.last.tried = <<>>
                       /\ vb.kind = "none"
               /\ (Configured # "none" /\ Configured \in vb.installed)
                    => vb.kind = Configured /\ vb.last.raised = "none"
               /\ (Configured # "none" /\ Configured \notin vb.installed
                                       /\ alt \in vb.installed)
                    => vb.kind = alt /\ vb.last.raised = "none"
               /\ Configured # "none"
                    => (vb.last.raised # "none"
                          <=> vb.installed \cap {"vec", "vss"} = {})

\* C21 witness: a name written in capitals whose runtime is missing, while the
\* other backend's runtime is there, got the other backend
C21_Witness ==
    /\ vb.last.op = "get_vector_backend"
    /\ vb.vector_backend = <<"V", "E", "C">>
    /\ vb.installed = {"vss"}
    /\ vb.kind = "vss"
    /\ vb.last.tried = <<"vec", "vss">>

\* the vector given last for the id in a batch
LastVectorFor(id, ids, vectors) ==
    vectors[Max({i \in 1..Len(ids) : ids[i] = id})]

\* C22: in both backends add_vectors is an upsert: an id that was present
\* keeps one entry, holding the new vector; the same id twice in one batch
\* keeps the last vector; count() grows by the new ids only; the entries of
\* other ids stay; and a search ranks every id once, by its current vector.
C22_AddVectorsIsUpsert ==
    LET t == vb.tables[vb.kind]
        pre == vb.last.pre[vb.kind]
    IN  /\ (vb.last.op = "add_vectors" /\ vb.last.raised = "none"
                                       /\ vb.last.ids # <<>>)
             => LET ids == vb.last.ids
                    new == Range(ids)
                IN  /\ \A id \in new :
                          /\ Cardinality({r \in Entries(t) : r.chunk_id = id}) = 1
                          /\ \A r \in Entries(t) :
                                r.chunk_id = id
                                  => r.embedding
                                       = LastVectorFor(id, ids, vb.last.vectors)
                    /\ count(t)
                         = Cardinality({r.chunk_id : r \in Entries(pre)} \cup new)
                    /\ {e \in Entries(t) : e.chunk_id \notin new}
                         = {e \in Entries(pre) : e.chunk_id \notin new}
        /\ (vb.last.op = "search" /\ vb.last.raised = "none")
             => LET hits == vb.last.hits
                IN  /\ \A i, j \in 1..Len(hits) :
                          i # j => hits[i].chunk_id # hits[j].chunk_id
                    /\ \A i \in 1..Len(hits) :
                          \E e \in Entries(t) :
                             /\ e.chunk_id = hits[i].chunk_id
                             /\ hits[i].distance
                                  = Distance(e.embedding, vb.last.vectors[1])

\* C22 witness: the vss backend was given id 1 twice in one batch, with two
\* vectors, while id 1 was stored with a third vector next to id 2
C22_Witness ==
    /\ vb.kind = "vss"
    /\ vb.last.op = "add_vectors" /\ vb.last.raised = "none"
    /\ vb.last.ids = <<1, 1>>
    /\ vb.last.vectors[1] # vb.last.vectors[2]
    /\ \E r \in Entries(vb.last.pre["vss"]) :
          r.chunk_id = 1 /\ r.embedding \notin Range(vb.last.vectors)
    /\ \E r \in Entries(vb.last.pre["vss"]) : r.chunk_id = 2

\* C23: clear() on an index that has been initialized, by this backend object
\* or by an earlier one on the same database file, leaves an empty, usable
\* index of the same dimension: the table exists and is empty, so count() is
\* 0 and add_vectors and search work without a new init_index call.
C23_ClearLeavesUsableIndex ==
    (vb.last.op = "clear" /\ vb.last.pre[vb.kind].exists)
        => LET t == vb.tables[vb.kind]
           IN  /\ t.exists
               /\ Entries(t) = {} /\ count(t) = 0
               /\ t.dim = vb.last.pre[vb.kind].dim

\* the ids a backend's tables hold a vector for
LiveIds(t) == {e.chunk_id : e \in Entries(t)}

----------------------------------------------------------------------------
(* Properties of docs_fetch (checked under SpecFetch) *)

\* C39: docs_fetch returns a document only for a path that lies inside a
\* configured repository root, segment by segment; a path outside every
\* configured root gets the 'not within a configured repository' error, also
\* when a document is stored under it.
C39_FetchOnlyInsideConfiguredRepos ==
    api.op = "docs_fetch"
        => LET inside == \E i \in 1..Len(Repos) :
                            IsRelativeTo(api.args.path, RepoRoot(Repos[i]))
           IN  /\ api.ret.error = "none" => inside
               /\ ~inside => api.ret.error = NotWithinRepo

----------------------------------------------------------------------------
(* Properties of extract_title (checked under SpecTitle) *)

\* the lines of a text
RECURSIVE SplitLines(_)
SplitLines(text) ==
    IF text = <<>> THEN <<>>
    ELSE LET e == LineEnd(text, 0)
         IN  <<Slice(text, 0, e)>>
                \o (IF e >= Len(text) THEN <<>> ELSE SplitLines(SliceFrom(text, e + 1)))

\* a level-1 heading line: '#' followed by a whitespace character; with
\* bare, also a line that is '#' alone, followed by the end of the line
IsHeadingLine(line, bare) ==
    /\ Len(line) >= 1 /\ line[1] = "#"
    /\ \/ Len(line) >= 2 /\ IsWs(line[2])
       \/ bare /\ Len(line) = 1

\* the title as stated: the text of the first heading line, else the first
\* non-blank line cut to TitleMax, else Untitled
StatedTitle(text, bare) ==
    LET lines == SplitLines(text)
        hs == {k \in 1..Len(lines) : IsHeadingLine(lines[k], bare)}
        solid == {k \in 1..Len(lines) : Strip(lines[k]) # <<>>}
    IN  IF hs # {} THEN Strip(Tail(lines[Min(hs)]))
        ELSE IF solid # {} THEN Slice(Strip(lines[Min(solid)]), 0, TitleMax)
        ELSE Untitled

\* C40: extract_title returns the stripped text of the first level-1 heading
\* line ('#' followed by whitespace, wherever the line is), else the first
\* non-blank line stripped and cut to 100 characters, else 'Untitled'. Either
\* reading of a line that is '#' alone is accepted.
C40_TitleIsFirstHeadingLine ==
    api.op = "extract_title"
        => api.ret \in {StatedTitle(api.args.rows, FALSE),
                        StatedTitle(api.args.rows, TRUE)}

====
